---- MODULE Spec2Model ----
(***************************************************************************)
(* FinancialTextSplitter (src/src/text_splitter.py) as a state machine.    *)
(*                                                                         *)
(* A text is a sequence of one-character strings, so that the string and   *)
(* regular-expression operations of the code (strip, split, slicing,       *)
(* re.split, re.match, re.finditer) are computed character by character.   *)
(***************************************************************************)
EXTENDS Integers, Sequences, FiniteSets, TLC

(***************************************************************************)
(* Characters and the str methods the splitter uses                        *)
(***************************************************************************)
UpperLetters == <<"A","B","C","D","E","F","G","H","I","J","K","L","M",
                  "N","O","P","Q","R","S","T","U","V","W","X","Y","Z">>

LowerLetters == <<"a","b","c","d","e","f","g","h","i","j","k","l","m",
                  "n","o","p","q","r","s","t","u","v","w","x","y","z">>

UpperSet == {UpperLetters[i] : i \in DOMAIN UpperLetters}

LowerSet == {LowerLetters[i] : i \in DOMAIN LowerLetters}

Digits == {"0","1","2","3","4","5","6","7","8","9"}

Whitespace == {" ", "\n", "\t"}

isupper(c) == c \in UpperSet

isspace(c) == c \in Whitespace

\* str.lower() on one character
lower_char(c) ==
    IF c \in UpperSet
    THEN LowerLetters[CHOOSE i \in DOMAIN UpperLetters : UpperLetters[i] = c]
    ELSE c

\* str.lower()
lower(s) == [i \in DOMAIN s |-> lower_char(s[i])]

\* s[a:b] of Python for 0 <= a, b (0-based, b exclusive), clipped to the text
Slice(s, a, b) ==
    LET lo == IF a > Len(s) THEN Len(s) ELSE a
        hi == IF b > Len(s) THEN Len(s) ELSE b
    IN  IF hi <= lo THEN <<>> ELSE SubSeq(s, lo + 1, hi)

\* Python's index normalisation of a slice bound: a negative bound counts
\* from the end of the text
PyIndex(s, k) == IF k >= 0 THEN k ELSE IF Len(s) + k < 0 THEN 0 ELSE Len(s) + k

\* s[:k] and s[k:] of Python for any integer k
SliceTo(s, k) == Slice(s, 0, PyIndex(s, k))

SliceFrom(s, k) == Slice(s, PyIndex(s, k), Len(s))

\* 1-based position of the first character of s at or after position i that
\* is outside (inside) the set cs; Len(s) + 1 when there is none
RECURSIVE SkipWhile(_, _, _)
SkipWhile(s, i, cs) ==
    IF i > Len(s) \/ s[i] \notin cs THEN i ELSE SkipWhile(s, i + 1, cs)

RECURSIVE SkipUntil(_, _, _)
SkipUntil(s, i, cs) ==
    IF i > Len(s) \/ s[i] \in cs THEN i ELSE SkipUntil(s, i + 1, cs)

\* 1-based position of the last character of s at or before position i that
\* is outside the set cs; 0 when there is none
RECURSIVE SkipBack(_, _, _)
SkipBack(s, i, cs) ==
    IF i < 1 \/ s[i] \notin cs THEN i ELSE SkipBack(s, i - 1, cs)

\* str.strip(): whitespace removed at both ends
strip(s) ==
    LET a == SkipWhile(s, 1, Whitespace)
        b == SkipBack(s, Len(s), Whitespace)
    IN  IF a > b THEN <<>> ELSE SubSeq(s, a, b)

\* str.rstrip('.')
rstrip_dots(s) ==
    LET b == SkipBack(s, Len(s), {"."})
    IN  IF b < 1 THEN <<>> ELSE SubSeq(s, 1, b)

\* str.split(): the maximal runs of non-whitespace characters, in order
RECURSIVE SplitFrom(_, _)
SplitFrom(s, i) ==
    LET a == SkipWhile(s, i, Whitespace)
        b == SkipUntil(s, a, Whitespace)
    IN  IF a > Len(s) THEN <<>>
        ELSE <<SubSeq(s, a, b - 1)>> \o SplitFrom(s, b)

split(s) == SplitFrom(s, 1)

\* the text t occurs in s at 1-based position i
OccursAt(s, t, i) ==
    /\ i >= 1
    /\ i + Len(t) - 1 <= Len(s)
    /\ \A k \in 1..Len(t) : s[i + k - 1] = t[k]

\* Python's `t in s`
Contains(s, t) == \E i \in 1..(Len(s) - Len(t) + 1) : OccursAt(s, t, i)

IsSuffix(t, s) == Len(t) <= Len(s) /\ OccursAt(s, t, Len(s) - Len(t) + 1)

IsPrefix(t, s) == OccursAt(s, t, 1)

(***************************************************************************)
(* Text literals                                                           *)
(***************************************************************************)
\* the text literals of the source, character by character
Str_Rs == <<"R","s">>

Str_Dr == <<"D","r">>

Str_Mr == <<"M","r">>

Str_Mrs == <<"M","r","s">>

Str_Ms == <<"M","s">>

Str_Ltd == <<"L","t","d">>

Str_Pvt == <<"P","v","t">>

Str_Inc == <<"I","n","c">>

Str_Corp == <<"C","o","r","p">>

Str_vs == <<"v","s">>

Str_etc == <<"e","t","c">>

Str_viz == <<"v","i","z">>

Str_CHAPTER == <<"C","H","A","P","T","E","R">>

Str_PART == <<"P","A","R","T">>

Str_Section == <<"S","e","c","t","i","o","n">>

Str_Regulation == <<"R","e","g","u","l","a","t","i","o","n">>

Str_Article == <<"A","r","t","i","c","l","e">>

Str_Schedule == <<"S","c","h","e","d","u","l","e">>

Str_Annexure == <<"A","n","n","e","x","u","r","e">>

Str_listing == <<"l","i","s","t","i","n","g">>

Str_obligation == <<"o","b","l","i","g","a","t","i","o","n">>

Str_disclosure == <<"d","i","s","c","l","o","s","u","r","e">>

Str_insider == <<"i","n","s","i","d","e","r">>

Str_trading == <<"t","r","a","d","i","n","g">>

Str_prohibition == <<"p","r","o","h","i","b","i","t","i","o","n">>

Str_takeover == <<"t","a","k","e","o","v","e","r">>

Str_regulation == <<"r","e","g","u","l","a","t","i","o","n">>

Str_substantial == <<"s","u","b","s","t","a","n","t","i","a","l">>

Str_acquisition == <<"a","c","q","u","i","s","i","t","i","o","n">>

Str_master == <<"m","a","s","t","e","r">>

Str_direction == <<"d","i","r","e","c","t","i","o","n">>

Str_circular == <<"c","i","r","c","u","l","a","r">>

Str_nse == <<"n","s","e">>

Str_exchange == <<"e","x","c","h","a","n","g","e">>

Str_notice == <<"n","o","t","i","c","e">>

Str_income == <<"i","n","c","o","m","e">>

Str_tax == <<"t","a","x">>

Str_section == <<"s","e","c","t","i","o","n">>

Str_capital == <<"c","a","p","i","t","a","l">>

Str_gain == <<"g","a","i","n">>

Str_chapter == <<"c","h","a","p","t","e","r">>

Str_ref == <<"r","e","f">>

Str_faq == <<"f","a","q">>

Str_act == <<"a","c","t">>

\* 'e.g'
Str_eg == <<"e",".","g">>

\* 'i.e'
Str_ie == <<"i",".","e">>

\* '80'
Str_80 == <<"8","0">>

\* 'frequently asked questions'
Str_frequently_asked_questions == <<"f","r","e","q","u","e","n","t","l","y"," ","a","s","k","e","d"," ","q","u","e","s","t","i","o","n","s">>

\* 'Q: '
Str_Q == <<"Q",":"," ">>

\* '\nA: '
Str_A == <<"\n","A",":"," ">>

\* '...'
Str_dots == <<".",".",".">>

\* '...continued: '
Str_continued == <<".",".",".","c","o","n","t","i","n","u","e","d",":"," ">>

(***************************************************************************)
(* _split_sentences                                                        *)
(***************************************************************************)
sentence_endings == {".", "!", "?"}

abbreviations ==
    {Str_Rs, Str_Dr, Str_Mr, Str_Mrs, Str_Ms, Str_Ltd, Str_Pvt, Str_Inc,
     Str_Corp, Str_vs, Str_etc, Str_viz, Str_eg, Str_ie}

\* re.split(r'([.!?])', text) from 1-based position i on: the pieces of
\* text between the punctuation marks, alternating with the marks
RECURSIVE SplitEndings(_, _)
SplitEndings(s, i) ==
    LET j == SkipUntil(s, i, sentence_endings)
    IN  IF j > Len(s) THEN <<SubSeq(s, i, Len(s))>>
        ELSE <<SubSeq(s, i, j - 1), <<s[j]>>>> \o SplitEndings(s, j + 1)

\* the candidate after part i ends a sentence: the part is a punctuation
\* mark, the last word is no abbreviation, and what follows is empty or
\* begins (after whitespace) with an upper-case character
EndsSentence(parts, i, current) ==
    LET words == split(current)
        next  == IF i + 1 <= Len(parts) THEN strip(parts[i + 1]) ELSE <<>>
    IN  /\ Len(parts[i]) > 0
        /\ parts[i][1] \in sentence_endings
        /\ words # <<>>
        /\ rstrip_dots(words[Len(words)]) \notin abbreviations
        /\ (next # <<>> => isupper(next[1]))

\* the loop `for i, part in enumerate(sentences)` from part i on, and the
\* trailing `if current`
RECURSIVE SentenceLoop(_, _, _, _)
SentenceLoop(parts, i, result, current) ==
    IF i > Len(parts)
    THEN IF current # <<>> THEN Append(result, strip(current)) ELSE result
    ELSE LET cur == current \o parts[i]
         IN  IF EndsSentence(parts, i, cur)
             THEN SentenceLoop(parts, i + 1, Append(result, strip(cur)), <<>>)
             ELSE SentenceLoop(parts, i + 1, result, cur)

split_sentences(text) == SentenceLoop(SplitEndings(text, 1), 1, <<>>, <<>>)

(***************************************************************************)
(* _get_overlap_text                                                       *)
(***************************************************************************)
\* the loop `for word in reversed(words)` from word k (1-based) down
RECURSIVE OverlapLoop(_, _, _, _, _)
OverlapLoop(words, k, overlap_text, current_length, overlap_size) ==
    IF k < 1 THEN overlap_text
    ELSE IF current_length + Len(words[k]) + 1 <= overlap_size
         THEN OverlapLoop(words, k - 1, words[k] \o <<" ">> \o overlap_text,
                          current_length + Len(words[k]) + 1, overlap_size)
         ELSE overlap_text

\* _get_overlap_text that returns the whole text whatever its length
get_overlap_text_whole(text, overlap_size) == text

get_overlap_text(text, overlap_size) ==
    IF Len(text) <= overlap_size THEN text
    ELSE LET words == split(text)
         IN  strip(OverlapLoop(words, Len(words), <<>>, 0, overlap_size))

(***************************************************************************)
(* _split_by_size                                                          *)
(***************************************************************************)
\* the locals of _split_by_size before its loop; branch records which arm
\* of the loop body ran last
SizeLocals ==
    [chunks |-> <<>>, current_chunk |-> <<>>, current_length |-> 0,
     overlap_text |-> <<>>, branch |-> "none"]

\* one iteration of `for sentence in sentences`
SizeStep(st, sentence, chunk_size, chunk_overlap) ==
    LET sentence_length == Len(sentence)
        closed == IF st.current_chunk # <<>>
                  THEN Append(st.chunks, strip(st.current_chunk))
                  ELSE st.chunks
        overlap == get_overlap_text(st.current_chunk, chunk_overlap)
    IN  IF st.current_length + sentence_length <= chunk_size
        THEN [st EXCEPT !.current_chunk = @ \o sentence \o <<" ">>,
                        !.current_length = @ + sentence_length + 1,
                        !.branch = "append"]
        ELSE IF chunk_overlap > 0 /\ closed # <<>>
             THEN [chunks |-> closed,
                   current_chunk |-> overlap \o sentence \o <<" ">>,
                   current_length |-> Len(overlap \o sentence \o <<" ">>),
                   overlap_text |-> overlap,
                   branch |-> "overlap"]
             ELSE [st EXCEPT !.chunks = closed,
                             !.current_chunk = sentence \o <<" ">>,
                             !.current_length = sentence_length + 1,
                             !.branch = "fresh"]

\* SizeFinish without the trailing `if current_chunk` append
SizeFinishDropping(st) == st.chunks

\* the trailing `if current_chunk: chunks.append(current_chunk.strip())`
SizeFinish(st) ==
    IF st.current_chunk # <<>>
    THEN Append(st.chunks, strip(st.current_chunk))
    ELSE st.chunks

RECURSIVE SizeLoop(_, _, _, _, _)
SizeLoop(st, sentences, i, chunk_size, chunk_overlap) ==
    IF i > Len(sentences) THEN st
    ELSE SizeLoop(SizeStep(st, sentences[i], chunk_size, chunk_overlap),
                  sentences, i + 1, chunk_size, chunk_overlap)

split_by_size(text, chunk_size, chunk_overlap) ==
    IF Len(text) <= chunk_size THEN <<strip(text)>>
    ELSE SizeFinish(SizeLoop(SizeLocals, split_sentences(text), 1,
                             chunk_size, chunk_overlap))

(***************************************************************************)
(* Regular expressions of the source                                       *)
(*                                                                         *)
(* A compiled pattern is a sequence of tokens: a one-character string is   *)
(* that literal character, a longer string is one of the classes below.    *)
(* Every                                                                   *)
(* pattern of the source is a sequence in which a repeated class is        *)
(* followed by a token that cannot match a character of that class, so the *)
(* greedy match without backtracking is the match `re` finds.              *)
(***************************************************************************)
Token(tok) ==
    CASE tok = "\\s+"         -> [chars |-> Whitespace, min |-> 1, many |-> TRUE]
      [] tok = "\\s*"         -> [chars |-> Whitespace, min |-> 0, many |-> TRUE]
      [] tok = "\\d+"         -> [chars |-> Digits, min |-> 1, many |-> TRUE]
      [] tok = "\\d*"         -> [chars |-> Digits, min |-> 0, many |-> TRUE]
      [] tok = "\\."          -> [chars |-> {"."}, min |-> 1, many |-> FALSE]
      [] tok = "[:.]?"        -> [chars |-> {":", "."}, min |-> 0, many |-> FALSE]
      [] tok = "[IVXLC]+"     -> [chars |-> {"I", "V", "X", "L", "C"}, min |-> 1,
                                  many |-> TRUE]
      [] tok = "[A-Z]"        -> [chars |-> UpperSet, min |-> 1, many |-> FALSE]
      [] tok = "[A-Za-z\\s]+" -> [chars |-> UpperSet \cup LowerSet \cup Whitespace,
                                  min |-> 1, many |-> TRUE]
      [] OTHER                -> [chars |-> {tok}, min |-> 1, many |-> FALSE]

\* character c is matched by the class cs, ignoring case under re.IGNORECASE
MatchesChar(c, cs, ignorecase) ==
    IF ignorecase THEN \E d \in cs : lower_char(d) = lower_char(c) ELSE c \in cs

\* the position after the longest run of characters of cs that starts at i
RECURSIVE RunEnd(_, _, _, _)
RunEnd(s, i, cs, ignorecase) ==
    IF i > Len(s) \/ ~MatchesChar(s[i], cs, ignorecase) THEN i
    ELSE RunEnd(s, i + 1, cs, ignorecase)

\* tokens k.. of pattern pat matched at position i of s: the position after
\* the match, 0 when there is no match
RECURSIVE MatchFrom(_, _, _, _, _)
MatchFrom(pat, k, s, i, ignorecase) ==
    IF k > Len(pat) THEN i
    ELSE LET e == Token(pat[k])
             j == RunEnd(s, i, e.chars, ignorecase)
         IN  IF e.many
             THEN IF j - i < e.min THEN 0
                  ELSE MatchFrom(pat, k + 1, s, j, ignorecase)
             ELSE IF j > i THEN MatchFrom(pat, k + 1, s, i + 1, ignorecase)
             ELSE IF e.min = 0 THEN MatchFrom(pat, k + 1, s, i, ignorecase)
             ELSE 0

\* re.match of one pattern at position i
MatchAt(pat, s, i, ignorecase) == MatchFrom(pat, 1, s, i, ignorecase)

\* the token sequence of each regular expression the splitter uses
re_compile(regex) ==
    CASE regex = "CHAPTER\\s+[IVXLC]+"  -> Str_CHAPTER \o <<"\\s+", "[IVXLC]+">>
      [] regex = "PART\\s+[IVXLC]+"     -> Str_PART \o <<"\\s+", "[IVXLC]+">>
      [] regex = "Section\\s+\\d+"      -> Str_Section \o <<"\\s+", "\\d+">>
      [] regex = "Regulation\\s+\\d+"   -> Str_Regulation \o <<"\\s+", "\\d+">>
      [] regex = "Article\\s+\\d+"      -> Str_Article \o <<"\\s+", "\\d+">>
      [] regex = "Schedule\\s+[IVXLC]+" -> Str_Schedule \o <<"\\s+", "[IVXLC]+">>
      [] regex = "Annexure\\s+[A-Z]"    -> Str_Annexure \o <<"\\s+", "[A-Z]">>
      [] regex = "\\d+\\.\\s+[A-Z][A-Za-z\\s]+:" ->
            <<"\\d+", "\\.", "\\s+", "[A-Z]", "[A-Za-z\\s]+", ":">>
      [] regex = "\\n\\s*\\d+\\.\\s+" -> <<"\n", "\\s*", "\\d+", "\\.", "\\s+">>
      [] regex = "listing.*obligation.*disclosure" ->
            Str_listing \o <<".*">> \o Str_obligation \o <<".*">> \o Str_disclosure
      [] regex = "insider.*trading|prohibition.*insider" ->
            Str_insider \o <<".*">> \o Str_trading \o <<"|">>
            \o Str_prohibition \o <<".*">> \o Str_insider
      [] regex = "takeover.*regulation|substantial.*acquisition" ->
            Str_takeover \o <<".*">> \o Str_regulation \o <<"|">>
            \o Str_substantial \o <<".*">> \o Str_acquisition
      [] regex = "master.*direction|master.*circular" ->
            Str_master \o <<".*">> \o Str_direction \o <<"|">>
            \o Str_master \o <<".*">> \o Str_circular
      [] regex = "nse.*circular|exchange.*notice" ->
            Str_nse \o <<".*">> \o Str_circular \o <<"|">>
            \o Str_exchange \o <<".*">> \o Str_notice
      [] regex = "income.*tax|section.*80|capital.*gain" ->
            Str_income \o <<".*">> \o Str_tax \o <<"|">>
            \o Str_section \o <<".*">> \o Str_80 \o <<"|">>
            \o Str_capital \o <<".*">> \o Str_gain

\* re.match at position i of "|".join(pats): the first alternative, in
\* order, that matches decides; 0 when none does
RECURSIVE MatchAnyFrom(_, _, _, _, _)
MatchAnyFrom(pats, k, s, i, ignorecase) ==
    IF k > Len(pats) THEN 0
    ELSE IF MatchAt(re_compile(pats[k]), s, i, ignorecase) > 0
         THEN MatchAt(re_compile(pats[k]), s, i, ignorecase)
         ELSE MatchAnyFrom(pats, k + 1, s, i, ignorecase)

MatchAny(pats, s, i, ignorecase) == MatchAnyFrom(pats, 1, s, i, ignorecase)

\* the first position from i on where one of the alternatives pats matches;
\* Len(s) + 1 when there is none
NextMatch(pats, s, i, ignorecase) ==
    LET hits == {p \in i..Len(s) : MatchAny(pats, s, p, ignorecase) > 0}
    IN  IF hits = {} THEN Len(s) + 1
        ELSE CHOOSE p \in hits : \A q \in hits : p <= q

\* re.split of s at the leftmost non-overlapping matches of the alternatives
\* pats, scanning from position i with the running piece begun at start;
\* with capture the matched texts are kept between the pieces
RECURSIVE ReSplit(_, _, _, _, _, _)
ReSplit(pats, s, start, i, ignorecase, capture) ==
    LET p == NextMatch(pats, s, i, ignorecase)
        e == MatchAny(pats, s, p, ignorecase)
    IN  IF p > Len(s) THEN <<SubSeq(s, start, Len(s))>>
        ELSE <<SubSeq(s, start, p - 1)>>
             \o (IF capture THEN <<SubSeq(s, p, e - 1)>> ELSE <<>>)
             \o ReSplit(pats, s, e, e, ignorecase, capture)

\* the pieces of a token sequence between the occurrences of the token sep
RECURSIVE SplitTokens(_, _, _, _)
SplitTokens(pat, sep, start, i) ==
    IF i > Len(pat) THEN <<SubSeq(pat, start, Len(pat))>>
    ELSE IF pat[i] = sep
         THEN <<SubSeq(pat, start, i - 1)>> \o SplitTokens(pat, sep, i + 1, i + 1)
         ELSE SplitTokens(pat, sep, start, i + 1)

\* `.*` then the literals kws[n..], each after a further `.*`, matched from
\* position p of s; `.` matches no newline
RECURSIVE ChainFrom(_, _, _, _)
ChainFrom(kws, n, s, p) ==
    \E j \in p..Len(s) :
        /\ \A x \in p..(j - 1) : s[x] # "\n"
        /\ OccursAt(s, kws[n], j)
        /\ (n = Len(kws) \/ ChainFrom(kws, n + 1, s, j + Len(kws[n])))

\* re.search of a pattern whose alternatives are literals joined by `.*`
ReSearch(regex, s) ==
    \E a \in DOMAIN SplitTokens(re_compile(regex), "|", 1, 1) :
        LET kws == SplitTokens(SplitTokens(re_compile(regex), "|", 1, 1)[a],
                               ".*", 1, 1)
        IN  \E i \in 1..Len(s) :
                /\ OccursAt(s, kws[1], i)
                /\ (Len(kws) = 1 \/ ChainFrom(kws, 2, s, i + Len(kws[1])))

(***************************************************************************)
(* FinancialTextSplitter.__init__: the pattern tables                      *)
(***************************************************************************)
DefaultChunkSize == 1000

DefaultChunkOverlap == 200

section_markers ==
    <<"CHAPTER\\s+[IVXLC]+",
      "PART\\s+[IVXLC]+",
      "Section\\s+\\d+",
      "Regulation\\s+\\d+",
      "Article\\s+\\d+",
      "Schedule\\s+[IVXLC]+",
      "Annexure\\s+[A-Z]",
      "\\d+\\.\\s+[A-Z][A-Za-z\\s]+:">>

regulation_patterns ==
    <<[type |-> "SEBI_LODR", pattern |-> "listing.*obligation.*disclosure"],
      [type |-> "SEBI_PIT", pattern |-> "insider.*trading|prohibition.*insider"],
      [type |-> "SEBI_TAKEOVER",
       pattern |-> "takeover.*regulation|substantial.*acquisition"],
      [type |-> "RBI_MASTER", pattern |-> "master.*direction|master.*circular"],
      [type |-> "NSE_CIRCULAR", pattern |-> "nse.*circular|exchange.*notice"],
      [type |-> "INCOME_TAX",
       pattern |-> "income.*tax|section.*80|capital.*gain"]>>

\* Optional[...] values: None, and a present value
None == <<>>

Some(v) == <<v>>

\* the object __init__ builds (length_function is always len)
FinancialTextSplitter(chunk_size, chunk_overlap) ==
    [chunk_size |-> chunk_size, chunk_overlap |-> chunk_overlap,
     section_markers |-> section_markers,
     regulation_patterns |-> regulation_patterns]

(***************************************************************************)
(* _detect_document_type                                                   *)
(***************************************************************************)
LeadLength == 2000

\* the classifier with the faq test before the circular test
detect_faq_first(text) ==
    LET text_lower == Slice(lower(text), 0, LeadLength)
    IN  IF Contains(text_lower, Str_regulation) /\ Contains(text_lower, Str_chapter)
        THEN "regulation"
        ELSE IF \/ Contains(text_lower, Str_frequently_asked_questions)
                \/ Contains(text_lower, Str_faq)
        THEN "faq"
        ELSE IF Contains(text_lower, Str_circular) /\ Contains(text_lower, Str_ref)
        THEN "circular"
        ELSE IF Contains(text_lower, Str_act) /\ Contains(text_lower, Str_section)
        THEN "act"
        ELSE "generic"

\* the classifier reading the whole text
detect_whole_text(text) ==
    LET text_lower == lower(text)
    IN  IF Contains(text_lower, Str_regulation) /\ Contains(text_lower, Str_chapter)
        THEN "regulation"
        ELSE IF Contains(text_lower, Str_circular) /\ Contains(text_lower, Str_ref)
        THEN "circular"
        ELSE IF \/ Contains(text_lower, Str_frequently_asked_questions)
                \/ Contains(text_lower, Str_faq)
        THEN "faq"
        ELSE IF Contains(text_lower, Str_act) /\ Contains(text_lower, Str_section)
        THEN "act"
        ELSE "generic"

detect_document_type(text) ==
    LET text_lower == Slice(lower(text), 0, LeadLength)
    IN  IF Contains(text_lower, Str_regulation) /\ Contains(text_lower, Str_chapter)
        THEN "regulation"
        ELSE IF Contains(text_lower, Str_circular) /\ Contains(text_lower, Str_ref)
        THEN "circular"
        ELSE IF \/ Contains(text_lower, Str_frequently_asked_questions)
                \/ Contains(text_lower, Str_faq)
        THEN "faq"
        ELSE IF Contains(text_lower, Str_act) /\ Contains(text_lower, Str_section)
        THEN "act"
        ELSE "generic"

(***************************************************************************)
(* _split_generic, _split_legal_document, _split_circular                  *)
(***************************************************************************)
split_generic(this, text) == split_by_size(text, this.chunk_size, this.chunk_overlap)

\* a running segment this short is not emitted when the next anchor starts
MinSegmentLength == 100

\* the loop `for part in sections` from part i on, and the trailing
\* `if current_chunk`
RECURSIVE LegalLoop(_, _, _, _, _)
LegalLoop(this, parts, i, chunks, current_chunk) ==
    IF i > Len(parts)
    THEN IF current_chunk # <<>>
         THEN chunks \o split_generic(this, current_chunk)
         ELSE chunks
    ELSE IF MatchAny(this.section_markers, parts[i], 1, TRUE) > 0
    THEN LegalLoop(this, parts, i + 1,
                   IF current_chunk # <<>> /\ Len(current_chunk) > MinSegmentLength
                   THEN chunks \o split_generic(this, current_chunk)
                   ELSE chunks,
                   parts[i])
    ELSE LET grown == current_chunk \o parts[i]
         IN  \* len(current_chunk) > chunk_size * 1.5
             IF 2 * Len(grown) > 3 * this.chunk_size
             THEN LegalLoop(this, parts, i + 1,
                            chunks \o split_generic(this, grown), <<>>)
             ELSE LegalLoop(this, parts, i + 1, chunks, grown)

split_legal_document(this, text) ==
    LegalLoop(this, ReSplit(this.section_markers, text, 1, 1, TRUE, TRUE),
              1, <<>>, <<>>)

\* r'\n\s*\d+\.\s+'
numbered_point == "\\n\\s*\\d+\\.\\s+"

RECURSIVE CircularLoop(_, _, _)
CircularLoop(this, points, i) ==
    IF i > Len(points) THEN <<>>
    ELSE (IF Len(points[i]) <= this.chunk_size
          THEN <<strip(points[i])>>
          ELSE split_generic(this, points[i]))
         \o CircularLoop(this, points, i + 1)

split_circular(this, text) ==
    CircularLoop(this, ReSplit(<<numbered_point>>, text, 1, 1, FALSE, FALSE), 1)

(***************************************************************************)
(* _split_faq                                                              *)
(***************************************************************************)
\* Q\d*[:.]?\s* and A\d*[:.]?\s*: the first alternative of each marker.  The
\* second one (Question..., Answer...) is tried only where the first fails,
\* and the first fails only on a character that begins neither.
question_marker == <<"Q", "\\d*", "[:.]?", "\\s*">>

answer_marker == <<"A", "\\d*", "[:.]?", "\\s*">>

\* the end of the lazy group 2: the first position from n on that is the end
\* of the text, a final newline, or the start of a question marker
RECURSIVE AnswerEnd(_, _)
AnswerEnd(text, n) ==
    IF \/ n > Len(text)
       \/ (n = Len(text) /\ text[n] = "\n")
       \/ MatchAt(question_marker, text, n, TRUE) > 0
    THEN n
    ELSE AnswerEnd(text, n + 1)

\* the first position from m on where an answer marker matches
RECURSIVE AnswerStart(_, _)
AnswerStart(text, m) ==
    IF m > Len(text) \/ MatchAt(answer_marker, text, m, TRUE) > 0 THEN m
    ELSE AnswerStart(text, m + 1)

\* re.finditer(qa_pattern, text, re.DOTALL | re.IGNORECASE) from position i:
\* the groups 0, 1 and 2 of each match
RECURSIVE FindQA(_, _)
FindQA(text, i) ==
    IF i > Len(text) THEN <<>>
    ELSE LET m == MatchAt(question_marker, text, i, TRUE)
             j == AnswerStart(text, m)
             n == MatchAt(answer_marker, text, j, TRUE)
             k == AnswerEnd(text, n)
         IN  IF m = 0 \/ j > Len(text) THEN FindQA(text, i + 1)
             ELSE <<[group0 |-> SubSeq(text, i, k - 1),
                     group1 |-> SubSeq(text, m, j - 1),
                     group2 |-> SubSeq(text, n, k - 1)]>>
                  \o FindQA(text, k)

\* the chunks of one match
FaqChunks(this, match) ==
    LET qa_pair  == strip(match.group0)
        question == strip(match.group1)
        answer   == strip(match.group2)
        cut      == this.chunk_size - Len(question) - 10
    IN  IF Len(qa_pair) <= this.chunk_size THEN <<qa_pair>>
        ELSE IF Len(answer) > this.chunk_size
        THEN <<Str_Q \o question \o Str_A \o SliceTo(answer, cut) \o Str_dots>>
             \o split_by_size(Str_continued \o SliceFrom(answer, cut),
                              this.chunk_size, this.chunk_overlap)
        ELSE <<qa_pair>>

RECURSIVE FaqLoop(_, _, _)
FaqLoop(this, matches, i) ==
    IF i > Len(matches) THEN <<>>
    ELSE FaqChunks(this, matches[i]) \o FaqLoop(this, matches, i + 1)

split_faq(this, text) ==
    LET chunks == FaqLoop(this, FindQA(text, 1), 1)
    IN  IF chunks = <<>> THEN split_generic(this, text) ELSE chunks

(***************************************************************************)
(* _identify_regulation_type, _extract_section, split_text                 *)
(***************************************************************************)
RECURSIVE RegulationFrom(_, _, _)
RegulationFrom(this, k, text_lower) ==
    IF k > Len(this.regulation_patterns) THEN None
    ELSE IF ReSearch(this.regulation_patterns[k].pattern, text_lower)
         THEN Some(this.regulation_patterns[k].type)
         ELSE RegulationFrom(this, k + 1, text_lower)

\* _identify_regulation_type that searches the text as written, without
\* text.lower()
identify_regulation_type_cased(this, text) == RegulationFrom(this, 1, text)

identify_regulation_type(this, text) == RegulationFrom(this, 1, lower(text))

RECURSIVE SectionFrom(_, _, _)
SectionFrom(this, k, text) ==
    IF k > Len(this.section_markers) THEN None
    ELSE IF MatchAt(re_compile(this.section_markers[k]), text, 1, TRUE) > 0
         THEN Some(SubSeq(text, 1,
                 MatchAt(re_compile(this.section_markers[k]), text, 1, TRUE) - 1))
         ELSE SectionFrom(this, k + 1, text)

\* _extract_section with re.search in place of re.match: the first marker,
\* in the order of the list, that occurs anywhere in the text
RECURSIVE SectionSearchFrom(_, _, _)
SectionSearchFrom(this, k, text) ==
    IF k > Len(this.section_markers) THEN None
    ELSE LET pat  == re_compile(this.section_markers[k])
             hits == {p \in 1..Len(text) : MatchAt(pat, text, p, TRUE) > 0}
             p    == CHOOSE p \in hits : \A q \in hits : p <= q
         IN  IF hits = {} THEN SectionSearchFrom(this, k + 1, text)
             ELSE Some(SubSeq(text, p, MatchAt(pat, text, p, TRUE) - 1))

extract_section_search(this, text) == SectionSearchFrom(this, 1, text)

extract_section(this, text) == SectionFrom(this, 1, text)

\* the strategy split_text selects for a document type
SplitByType(this, doc_type, text) ==
    IF doc_type \in {"regulation", "act"} THEN split_legal_document(this, text)
    ELSE IF doc_type = "circular" THEN split_circular(this, text)
    ELSE IF doc_type = "faq" THEN split_faq(this, text)
    ELSE split_generic(this, text)

\* metadata.get("source", "unknown") if metadata else "unknown"
SourceOf(metadata) ==
    IF metadata # None /\ "source" \in DOMAIN metadata
    THEN metadata.source
    ELSE "unknown"

\* MakeMetadata with chunk_index=i in place of i + 1
MakeMetadataZeroBased(this, chunks, i, metadata) ==
    [source |-> SourceOf(metadata),
     chunk_index |-> i,
     total_chunks |-> Len(chunks),
     section |-> extract_section(this, chunks[i + 1]),
     regulation_type |-> identify_regulation_type(this, chunks[i + 1]),
     page_number |-> None]

\* the ChunkMetadata of the i-th chunk (i counted from 0, as enumerate does)
MakeMetadata(this, chunks, i, metadata) ==
    [source |-> SourceOf(metadata),
     chunk_index |-> i + 1,
     total_chunks |-> Len(chunks),
     section |-> extract_section(this, chunks[i + 1]),
     regulation_type |-> identify_regulation_type(this, chunks[i + 1]),
     page_number |-> None]

\* split_text run alone, from entry to return
split_text(this, text, metadata) ==
    IF text = <<>> THEN <<>>
    ELSE LET chunks == SplitByType(this, detect_document_type(text), text)
         IN  [i \in 1..Len(chunks) |->
                 <<chunks[i], MakeMetadata(this, chunks, i - 1, metadata)>>]

(***************************************************************************)
(* Inputs of the bounded model                                             *)
(***************************************************************************)
\* the largest chunk_size and chunk_overlap a splitter is constructed with
MaxChunkSize == 10

MaxOverlap == 5

\* the largest number of sentence units joined into one input text
MaxUnits == 3

\* "Aa bb."
UnitPlain == <<"A","a"," ","b","b",".">>

\* "Cc d  e." (two spaces inside the sentence)
UnitWide == <<"C","c"," ","d"," "," ","e",".">>

\* "Ffffffffffffff." (longer than every chunk_size of the model)
UnitLong == <<"F","f","f","f","f","f","f","f","f","f","f","f","f","f",".">>

Units == {UnitPlain, UnitWide, UnitLong}

RECURSIVE JoinUnits(_, _)
JoinUnits(us, i) ==
    IF i > Len(us) THEN <<>>
    ELSE IF i = Len(us) THEN us[i]
    ELSE us[i] \o <<" ">> \o JoinUnits(us, i + 1)

\* "1. First point about margin. 2. Second point about insider trading."
TextScenario == <<"1","."," ","F","i","r","s","t"," ","p","o","i","n","t"," ","a","b","o","u","t"," ","m","a","r","g","i","n","."," ","2","."," ","S","e","c","o","n","d"," ","p","o","i","n","t"," ","a","b","o","u","t"," ","i","n","s","i","d","e","r"," ","t","r","a","d","i","n","g",".">>

\* the configuration that text is split with
ScenarioConfig == [chunk_size |-> 40, chunk_overlap |-> 5]

\* the texts _split_by_size is called on: one to MaxUnits units separated by
\* a space, with and without whitespace after the last sentence terminator
SizeTexts ==
    LET seqs   == UNION {[1..n -> Units] : n \in 1..MaxUnits}
        joined == {JoinUnits(us, 1) : us \in seqs}
    IN  joined \cup {t \o <<" ">> : t \in joined} \cup {TextScenario}

\* "" and "  "
TextEmpty == <<>>

TextBlank == <<" "," ">>

\* "Aa bb. Cc dd."
TextGeneric == <<"A","a"," ","b","b","."," ","C","c"," ","d","d",".">>

\* "Regulation chapter x. Section 1 Bb. Cc dd."
TextLegal == <<"R","e","g","u","l","a","t","i","o","n"," ","c","h","a","p","t","e","r"," ","x","."," ","S","e","c","t","i","o","n"," ","1"," ","B","b","."," ","C","c"," ","d","d",".">>

\* "Circular ref\n1. Aa.\n2. "
TextCircular == <<"C","i","r","c","u","l","a","r"," ","r","e","f","\n","1","."," ","A","a",".","\n","2","."," ">>

\* "FAQ Q: Aa? A: Bb. Q2: Cc? A2: Dd."
TextFaq == <<"F","A","Q"," ","Q",":"," ","A","a","?"," ","A",":"," ","B","b","."," ","Q","2",":"," ","C","c","?"," ","A","2",":"," ","D","d",".">>

\* "Q: Bb? A: Cc." and "Q: Dd? A: Ee.": two question/answer pairs, and the
\* text made of them, "Q: Bb? A: Cc. Q: Dd? A: Ee."
QaPairs ==
    <<<<"Q",":"," ","B","b","?"," ","A",":"," ","C","c",".">>,
      <<"Q",":"," ","D","d","?"," ","A",":"," ","E","e",".">>>>

TextQa == QaPairs[1] \o <<" ">> \o QaPairs[2]

\* the documents split_text is called on, and the metadata given with them
DocTexts ==
    {TextEmpty, TextBlank, TextGeneric, TextLegal, TextCircular, TextFaq, TextQa}

Metadatas == {None, [source |-> "sebi.pdf"]}

\* the configurations with 0 <= chunk_overlap < chunk_size
SizeConfigs ==
    {cfg \in [chunk_size : 4..MaxChunkSize, chunk_overlap : 0..MaxOverlap] :
        cfg.chunk_overlap < cfg.chunk_size}
    \cup {ScenarioConfig}

\* the configurations the shared splitter of split_text is constructed with
SplitConfigs ==
    {[chunk_size |-> MaxChunkSize, chunk_overlap |-> 0],
     [chunk_size |-> MaxChunkSize, chunk_overlap |-> MaxOverlap],
     [chunk_size |-> DefaultChunkSize, chunk_overlap |-> DefaultChunkOverlap]}

(***************************************************************************)
(* State                                                                   *)
(***************************************************************************)
Callers == {"c1", "c2"}

VARIABLES
    config, \* the arguments the splitter was constructed with
    self,   \* the FinancialTextSplitter object shared by the callers
    pc,     \* each caller's position in the method it is running
    call,   \* each caller's split_text frame
    sz,     \* each caller's _split_by_size frame
    strat,  \* each caller's frame of the splitting strategy it runs
    disk,   \* the data directory: raw documents, the two processing caches
            \* and the saved vector index
    proc,   \* the ingestion program that is running: its DocumentProcessor
            \* object and the locals of its run
    comb    \* the frame of a call of combine_chunks

vars == <<config, self, pc, call, sz, strat, disk, proc, comb>>

NoCall == [text |-> <<>>, metadata |-> None, doc_type |-> "", chunks |-> <<>>,
           result |-> <<>>]

NoSize == [text |-> <<>>, sentences |-> <<>>, i |-> 0, st |-> SizeLocals,
           chunks |-> <<>>]

\* the locals of _split_legal_document, _split_circular and _split_faq: the
\* pieces the text was cut into (sections, points or matches), the position
\* of the loop over them, `first`, the number of the piece current_chunk
\* starts with, and `handed`, the texts passed to _split_by_size so far
NoStrategy == [method |-> "", text |-> <<>>, pieces |-> <<>>, i |-> 0,
               current_chunk |-> <<>>, first |-> 0, chunks |-> <<>>,
               handed |-> <<>>]

\* the files the raw directory can hold
Files == {"a.txt", "b.txt"}

\* an empty data directory: no raw document, no record in processed_documents.json
\* (the cache of src/process_documents.py) or in processing_cache.json (the
\* cache of data_processor.py), and no index.faiss
NoDisk == [raw |-> [f \in Files |-> None],
           processed_documents |-> [f \in Files |-> None],
           processing_cache |-> [f \in Files |-> None],
           faiss_index |-> None]

\* the statistics __init__ sets (processing_time is left out)
NoStats == [total_files |-> 0, processed_files |-> 0, failed_files |-> 0,
            total_chunks |-> 0]

\* no ingestion program is running.  Of a running one: its position, its
\* options, the cache its DocumentProcessor holds in memory, the statistics,
\* the files it found, the position of its loop over them, the documents it
\* has collected and the number of calls of process_all_documents made on
\* the object
NoProcess == [pc |-> "exited", update |-> FALSE, force_reprocess |-> FALSE,
              cache |-> [f \in Files |-> None], stats |-> NoStats,
              all_files |-> <<>>, i |-> 0, all_documents |-> <<>>,
              calls |-> 0]

\* the locals of combine_chunks: its arguments, the position of its loop,
\* `combined` and `current`, and the list it returned
NoCombine == [pc |-> "idle", chunks |-> <<>>, max_size |-> 0, i |-> 0,
              combined |-> <<>>, current |-> <<>>, result |-> <<>>]

(***************************************************************************)
(* _split_by_size run step by step by one caller                           *)
(***************************************************************************)
\* entry of _split_by_size: the early return for a text that fits, else the
\* sentence split before the loop
SplitBySizeCall(c) ==
    /\ pc[c] = "idle"
    /\ \E text \in SizeTexts :
          IF Len(text) <= self.chunk_size
          THEN /\ sz' = [sz EXCEPT ![c] = [NoSize EXCEPT !.text = text,
                                               !.chunks = <<strip(text)>>]]
               /\ pc' = [pc EXCEPT ![c] = "size_done"]
          ELSE /\ sz' = [sz EXCEPT ![c] = [NoSize EXCEPT !.text = text,
                                               !.sentences = split_sentences(text),
                                               !.i = 1]]
               /\ pc' = [pc EXCEPT ![c] = "size_loop"]
    /\ UNCHANGED <<config, self, call, strat, disk, proc, comb>>

\* one iteration of the loop over the sentences
SizeIterate(c) ==
    /\ pc[c] = "size_loop"
    /\ sz[c].i <= Len(sz[c].sentences)
    /\ sz' = [sz EXCEPT ![c].st = SizeStep(@, sz[c].sentences[sz[c].i],
                                           self.chunk_size, self.chunk_overlap),
                        ![c].i = @ + 1]
    /\ UNCHANGED <<config, self, pc, call, strat, disk, proc, comb>>

\* the loop is over: the last chunk is closed and the chunks are returned
SizeExit(c) ==
    /\ pc[c] = "size_loop"
    /\ sz[c].i > Len(sz[c].sentences)
    /\ sz' = [sz EXCEPT ![c].chunks = SizeFinish(sz[c].st)]
    /\ pc' = [pc EXCEPT ![c] = "size_done"]
    /\ UNCHANGED <<config, self, call, strat, disk, proc, comb>>

\* the caller drops the returned chunks
SizeReturn(c) ==
    /\ pc[c] = "size_done"
    /\ sz' = [sz EXCEPT ![c] = NoSize]
    /\ pc' = [pc EXCEPT ![c] = "idle"]
    /\ UNCHANGED <<config, self, call, strat, disk, proc, comb>>

InitSize ==
    /\ config \in SizeConfigs
    /\ self = FinancialTextSplitter(config.chunk_size, config.chunk_overlap)
    /\ pc = [c \in Callers |-> "idle"]
    /\ call = [c \in Callers |-> NoCall]
    /\ sz = [c \in Callers |-> NoSize]
    /\ strat = [c \in Callers |-> NoStrategy]
    /\ disk = NoDisk
    /\ proc = NoProcess
    /\ comb = NoCombine

NextSize ==
    \/ SplitBySizeCall("c1")
    \/ SizeIterate("c1")
    \/ SizeExit("c1")
    \/ SizeReturn("c1")

SpecSize == InitSize /\ [][NextSize]_vars

(***************************************************************************)
(* split_text run step by step by callers that share one splitter          *)
(***************************************************************************)
\* entry of split_text, with the early return `if not text`
SplitTextCall(c) ==
    /\ pc[c] = "idle"
    /\ \E text \in DocTexts, metadata \in Metadatas :
          /\ call' = [call EXCEPT ![c] = [NoCall EXCEPT !.text = text,
                                                  !.metadata = metadata]]
          /\ pc' = [pc EXCEPT ![c] = IF text = <<>> THEN "done" ELSE "detect"]
    /\ UNCHANGED <<config, self, sz, strat, disk, proc, comb>>

\* doc_type = self._detect_document_type(text)
DetectType(c) ==
    /\ pc[c] = "detect"
    /\ call' = [call EXCEPT ![c].doc_type = detect_document_type(call[c].text)]
    /\ pc' = [pc EXCEPT ![c] = "split"]
    /\ UNCHANGED <<config, self, sz, strat, disk, proc, comb>>

\* SplitChunks that switches the overlap of the splitter off for a circular
\* and leaves it off
SplitChunksResettingOverlap(c) ==
    /\ pc[c] = "split"
    /\ self' = IF call[c].doc_type = "circular"
               THEN [self EXCEPT !.chunk_overlap = 0]
               ELSE self
    /\ call' = [call EXCEPT ![c].chunks =
                                SplitByType(self', call[c].doc_type, call[c].text)]
    /\ pc' = [pc EXCEPT ![c] = IF call'[c].chunks = <<>> THEN "done" ELSE "tag"]
    /\ UNCHANGED <<config, sz, strat, disk, proc, comb>>

\* chunks = the strategy of the document type applied to the text
SplitChunks(c) ==
    /\ pc[c] = "split"
    /\ call' = [call EXCEPT ![c].chunks =
                                SplitByType(self, call[c].doc_type, call[c].text)]
    /\ pc' = [pc EXCEPT ![c] = IF call'[c].chunks = <<>> THEN "done" ELSE "tag"]
    /\ UNCHANGED <<config, self, sz, strat, disk, proc, comb>>

\* AddMetadata that keeps the result list on the splitter object
\* (self.result) in place of a local of the call
AddMetadataShared(c) ==
    /\ pc[c] = "tag"
    /\ LET i      == Len(call[c].result)
           shared == IF "result" \in DOMAIN self THEN self.result ELSE <<>>
           grown  == Append(shared, <<call[c].chunks[i + 1],
                                      MakeMetadata(self, call[c].chunks, i,
                                                   call[c].metadata)>>)
       IN  /\ self' = [f \in DOMAIN self \cup {"result"} |->
                          IF f = "result" THEN grown ELSE self[f]]
           /\ call' = [call EXCEPT ![c].result = grown]
    /\ pc' = [pc EXCEPT ![c] = IF Len(call'[c].result) >= Len(call[c].chunks)
                               THEN "done" ELSE "tag"]
    /\ UNCHANGED <<config, sz, strat, disk, proc, comb>>

\* AddMetadata with metadata.get("source", "unknown") evaluated without the
\* test `if metadata`: with no metadata the call ends in an AttributeError
AddMetadataUnguarded(c) ==
    /\ pc[c] = "tag"
    /\ IF call[c].metadata = None
       THEN /\ pc' = [pc EXCEPT ![c] = "raised"]
            /\ UNCHANGED call
       ELSE /\ LET i == Len(call[c].result)
               IN  call' = [call EXCEPT ![c].result =
                               Append(@, <<call[c].chunks[i + 1],
                                           MakeMetadata(self, call[c].chunks, i,
                                                        call[c].metadata)>>)]
            /\ pc' = [pc EXCEPT ![c] = IF Len(call'[c].result) = Len(call[c].chunks)
                                       THEN "done" ELSE "tag"]
    /\ UNCHANGED <<config, self, sz, strat, disk, proc, comb>>

\* one iteration of `for i, chunk in enumerate(chunks)`
AddMetadata(c) ==
    /\ pc[c] = "tag"
    /\ LET i == Len(call[c].result)
       IN  call' = [call EXCEPT ![c].result =
                       Append(@, <<call[c].chunks[i + 1],
                                   MakeMetadata(self, call[c].chunks, i,
                                                call[c].metadata)>>)]
    /\ pc' = [pc EXCEPT ![c] = IF Len(call'[c].result) = Len(call[c].chunks)
                               THEN "done" ELSE "tag"]
    /\ UNCHANGED <<config, self, sz, strat, disk, proc, comb>>

\* return result: the caller takes it and its frame is gone
SplitTextReturn(c) ==
    /\ pc[c] = "done"
    /\ call' = [call EXCEPT ![c] = NoCall]
    /\ pc' = [pc EXCEPT ![c] = "idle"]
    /\ UNCHANGED <<config, self, sz, strat, disk, proc, comb>>

Init ==
    /\ config \in SplitConfigs
    /\ self = FinancialTextSplitter(config.chunk_size, config.chunk_overlap)
    /\ pc = [c \in Callers |-> "idle"]
    /\ call = [c \in Callers |-> NoCall]
    /\ sz = [c \in Callers |-> NoSize]
    /\ strat = [c \in Callers |-> NoStrategy]
    /\ disk = NoDisk
    /\ proc = NoProcess
    /\ comb = NoCombine

Next ==
    \E c \in Callers :
        \/ SplitTextCall(c)
        \/ DetectType(c)
        \/ SplitChunks(c)
        \/ AddMetadata(c)
        \/ SplitTextReturn(c)

Spec == Init /\ [][Next]_vars

\* the steps of a call of split_text once it has been entered
Proceed(c) ==
    \/ DetectType(c)
    \/ SplitChunks(c)
    \/ AddMetadata(c)
    \/ SplitTextReturn(c)

\* a call that has been entered and has not returned: Proceed(c) is enabled
\* in exactly these states
Running(c) == pc[c] \in {"detect", "split", "tag", "done"}

\* a step of Proceed(c): it changes the position or the frame of the call
Moves(c) == Running(c) /\ (pc'[c] # pc[c] \/ call'[c] # call[c])

\* a call runs in its caller's thread, which keeps executing it: no call that
\* can take a step waits for ever.  This is WF_vars(Proceed(c)) for every
\* caller, written with Running(c) for ENABLED <<Proceed(c)>>_vars and
\* Moves(c) for <<Proceed(c)>>_vars
FairSpec ==
    Spec /\ \A c \in Callers : ([]<>~Running(c)) \/ ([]<><<Moves(c)>>_vars)

(***************************************************************************)
(* Claims about split_text, checked under Spec                             *)
(***************************************************************************)
\* the splitter as it was constructed
Constructed == FinancialTextSplitter(config.chunk_size, config.chunk_overlap)

\* C1: the chunk_index values of the chunks split_text returns are, in
\* output order, exactly 1, 2, ..., N, and every chunk carries
\* total_chunks = N, N being the number of chunks returned.
C1_IndexContiguity ==
    \A c \in Callers :
        pc[c] = "done" =>
            \A k \in DOMAIN call[c].result :
                /\ call[c].result[k][2].chunk_index = k
                /\ call[c].result[k][2].total_chunks = Len(call[c].result)

\* a call has returned several chunks
C1_Witness ==
    \E c \in Callers : pc[c] = "done" /\ Len(call[c].result) >= 2

\* C2: split_text on a text that is empty after trimming (the empty string
\* or whitespace only) returns an empty sequence of chunks.
C2_BlankGivesNoChunks ==
    \A c \in Callers :
        (pc[c] = "done" /\ strip(call[c].text) = <<>>) => call[c].result = <<>>

\* C3: every chunk split_text returns, whichever strategy was selected, has
\* a non-empty text.
C3_NoEmptyChunk ==
    \A c \in Callers :
        pc[c] = "done" =>
            \A k \in DOMAIN call[c].result : call[c].result[k][1] # <<>>

\* the first chunk of a finished call that holds the text s, 0 if none does
FirstChunkWith(c, s) ==
    IF \E k \in DOMAIN call[c].result : Contains(call[c].result[k][1], s)
    THEN CHOOSE k \in DOMAIN call[c].result :
            /\ Contains(call[c].result[k][1], s)
            /\ \A j \in 1..(k - 1) : ~Contains(call[c].result[j][1], s)
    ELSE 0

\* C5: every sentence of the text appears in at least one chunk split_text
\* returns, and the sentences appear over the chunks in their original
\* order; no part of the text is omitted.
C5_Completeness ==
    \A c \in Callers :
        pc[c] = "done" =>
            LET sentences == split_sentences(call[c].text)
            IN  /\ \A i \in DOMAIN sentences :
                      sentences[i] # <<>> => FirstChunkWith(c, sentences[i]) > 0
                /\ \A i, j \in DOMAIN sentences :
                      (i < j /\ sentences[i] # <<>> /\ sentences[j] # <<>>) =>
                          FirstChunkWith(c, sentences[i])
                              <= FirstChunkWith(c, sentences[j])

\* C9: two calls of split_text with the same text and metadata on the same
\* splitter return identical sequences of (chunk text, chunk metadata), and
\* split_text leaves the splitter's configuration and pattern tables as they
\* were constructed.
C9_Deterministic ==
    /\ self = Constructed
    /\ \A c, d \in Callers :
          (/\ pc[c] = "done"
           /\ pc[d] = "done"
           /\ call[c].text = call[d].text
           /\ call[c].metadata = call[d].metadata) =>
              call[c].result = call[d].result

\* two callers hold the results of the same call, of several chunks
C9_Witness ==
    \E c, d \in Callers :
        /\ c # d
        /\ pc[c] = "done"
        /\ pc[d] = "done"
        /\ call[c].text = call[d].text
        /\ call[c].metadata = call[d].metadata
        /\ Len(call[c].result) >= 2

\* C10: however the steps of several split_text calls on one shared
\* splitter interleave, each call returns the chunk sequence it returns when
\* it runs alone on the splitter as constructed.
C10_ParallelSafe ==
    \A c \in Callers :
        pc[c] = "done" =>
            call[c].result = split_text(Constructed, call[c].text, call[c].metadata)

\* a call has returned several chunks while another call, on a different
\* document, is in the middle of tagging its chunks
C10_Witness ==
    \E c, d \in Callers :
        /\ pc[c] = "done"
        /\ Len(call[c].result) >= 2
        /\ pc[d] = "tag"
        /\ Len(call[d].result) >= 1
        /\ call[d].text # call[c].text

\* C13: a text made of n question/answer pairs, each of length <= chunk_size,
\* split through split_text gives exactly n chunks, the i-th containing the
\* i-th question with its full answer, also when the text does not contain
\* the word faq and when the whole text fits in chunk_size
C13_OnePairPerChunk ==
    \A c \in Callers :
        (/\ pc[c] = "done"
         /\ call[c].text = TextQa
         /\ \A i \in DOMAIN QaPairs : Len(QaPairs[i]) <= self.chunk_size)
        => /\ Len(call[c].result) = Len(QaPairs)
           /\ \A i \in DOMAIN QaPairs : Contains(call[c].result[i][1], QaPairs[i])

\* C15: for every text, every metadata value including none and every
\* configuration, a call of split_text that was entered goes through its
\* steps without an error, its loop takes each chunk once, and it reaches its
\* return with one result per chunk
C15_AlwaysReturns ==
    /\ [](\A c \in Callers :
            /\ pc[c] \in {"idle", "detect", "split", "tag", "done"}
            /\ pc[c] = "tag" => Len(call[c].result) < Len(call[c].chunks)
            /\ pc[c] = "done" => Len(call[c].result) = Len(call[c].chunks))
    /\ \A c \in Callers : (pc[c] = "detect") ~> (pc[c] = "done")

\* a call without metadata on a text without recognisable structure has
\* reached its return with several chunks
C15_Witness ==
    /\ pc["c1"] = "done"
    /\ call["c1"].metadata = None
    /\ call["c1"].doc_type = "generic"
    /\ Len(call["c1"].result) > 1
    /\ call["c1"].result[1][2].source = "unknown"

(***************************************************************************)
(* Claims about the Size-Bounded Chunker, checked under SpecSize           *)
(***************************************************************************)
HasText(t) == \E i \in DOMAIN t : ~isspace(t[i])

\* C4: for every input with a non-whitespace character and every
\* configuration with 0 <= chunk_overlap < chunk_size, _split_by_size
\* returns at least one chunk and no returned chunk is the empty string.
C4_NoEmptySizeChunk ==
    \A c \in Callers :
        (pc[c] = "size_done" /\ HasText(sz[c].text)) =>
            /\ Len(sz[c].chunks) >= 1
            /\ \A k \in DOMAIN sz[c].chunks : sz[c].chunks[k] # <<>>

\* chunk holds a sentence of the call that is longer than chunk_size
FromOversized(c, chunk) ==
    \E i \in DOMAIN sz[c].sentences :
        /\ Len(sz[c].sentences[i]) > self.chunk_size
        /\ Contains(chunk, sz[c].sentences[i])

\* C6: every chunk of _split_by_size that is not derived from a single
\* sentence longer than chunk_size has length <= chunk_size, the overlap
\* seeded into the chunk included.
C6_BoundRespect ==
    \A c \in Callers :
        pc[c] = "size_done" =>
            \A k \in DOMAIN sz[c].chunks :
                ~FromOversized(c, sz[c].chunks[k]) =>
                    Len(sz[c].chunks[k]) <= self.chunk_size

\* ov, trailing whitespace aside, is a suffix of chunk that begins at a word
\* boundary of chunk
SuffixAtWordBoundary(ov, chunk) ==
    LET o == strip(ov)
        p == Len(chunk) - Len(o)
    IN  o # <<>> =>
            /\ IsSuffix(o, chunk)
            /\ (p = 0 \/ isspace(chunk[p]))

\* C7: the overlap text placed at the start of chunk i+1 is a verbatim
\* suffix of chunk i (whitespace between its words included), has length
\* at most chunk_overlap and starts at a word boundary of chunk i.
C7_OverlapVerbatim ==
    \A c \in Callers :
        (pc[c] = "size_loop" /\ sz[c].st.branch = "overlap") =>
            LET st   == sz[c].st
                prev == st.chunks[Len(st.chunks)]
            IN  /\ IsPrefix(st.overlap_text, st.current_chunk)
                /\ Len(st.overlap_text) <= self.chunk_overlap
                /\ SuffixAtWordBoundary(st.overlap_text, prev)

\* C8 as claimed: a sentence longer than chunk_size, at any position and for
\* any chunk_overlap, is returned as a chunk equal to it, and a text that is
\* one such sentence yields exactly that chunk.
C8_OversizedOwnChunk ==
    \A c \in Callers :
        pc[c] = "size_done" =>
            /\ \A i \in DOMAIN sz[c].sentences :
                  Len(sz[c].sentences[i]) > self.chunk_size =>
                      \E k \in DOMAIN sz[c].chunks :
                          sz[c].chunks[k] = sz[c].sentences[i]
            /\ (sz[c].sentences = <<sz[c].text>> /\ Len(sz[c].text) > self.chunk_size) =>
                  sz[c].chunks = <<sz[c].text>>

\* the sentence handled by the last iteration of a caller in the loop
LastSentence(c) == sz[c].sentences[sz[c].i - 1]

\* C8 as amended: a sentence longer than chunk_size is never truncated or
\* dropped. The running chunk it opens holds the overlap text carried from
\* the chunk before it (nothing when the sentence is the first one or
\* chunk_overlap is 0), then the sentence unmodified; the returned chunk
\* ends with the sentence and exceeds it by at most chunk_overlap
\* characters; a text that is one such sentence yields exactly that chunk.
C8_OversizedKept ==
    \A c \in Callers :
        /\ (pc[c] = "size_loop" /\ sz[c].i > 1
                /\ Len(LastSentence(c)) > self.chunk_size) =>
              LET st == sz[c].st
                  carried == IF st.branch = "overlap" THEN st.overlap_text ELSE <<>>
              IN  /\ st.current_chunk = carried \o LastSentence(c) \o <<" ">>
                  /\ Len(carried) <= self.chunk_overlap
                  /\ (sz[c].i = 2 \/ self.chunk_overlap = 0) => carried = <<>>
        /\ pc[c] = "size_done" =>
              /\ \A i \in DOMAIN sz[c].sentences :
                    Len(sz[c].sentences[i]) > self.chunk_size =>
                        \E k \in DOMAIN sz[c].chunks :
                            /\ IsSuffix(sz[c].sentences[i], sz[c].chunks[k])
                            /\ Len(sz[c].chunks[k]) <=
                                  Len(sz[c].sentences[i]) + self.chunk_overlap
                            /\ (i = 1 \/ self.chunk_overlap = 0) =>
                                  sz[c].chunks[k] = sz[c].sentences[i]
              /\ (sz[c].sentences = <<sz[c].text>>
                      /\ Len(sz[c].text) > self.chunk_size) =>
                    sz[c].chunks = <<sz[c].text>>

\* a sentence longer than chunk_size that is not the first one was returned
\* behind overlap text
C8_Witness ==
    \E c \in Callers :
        /\ pc[c] = "size_done"
        /\ self.chunk_overlap > 0
        /\ \E i \in DOMAIN sz[c].sentences, k \in DOMAIN sz[c].chunks :
              /\ i > 1
              /\ Len(sz[c].sentences[i]) > self.chunk_size
              /\ IsSuffix(sz[c].sentences[i], sz[c].chunks[k])
              /\ Len(sz[c].chunks[k]) > Len(sz[c].sentences[i])

(***************************************************************************)
(* _detect_document_type run by one caller on keyword texts                *)
(***************************************************************************)
\* the keywords the classifier looks for, in the order of its tests
DetectWords ==
    <<Str_regulation, Str_chapter, Str_circular, Str_ref,
      Str_frequently_asked_questions, Str_faq, Str_act, Str_section>>

\* a text written in capital letters
upper(s) ==
    [i \in DOMAIN s |->
        IF s[i] \in LowerSet
        THEN UpperLetters[CHOOSE k \in DOMAIN LowerLetters : LowerLetters[k] = s[i]]
        ELSE s[i]]

\* the keywords with the numbers in ks, from number k on, separated by spaces
RECURSIVE JoinWords(_, _)
JoinWords(ks, k) ==
    IF k > Len(DetectWords) THEN <<>>
    ELSE IF k \in ks
         THEN DetectWords[k] \o <<" ">> \o JoinWords(ks, k + 1)
         ELSE JoinWords(ks, k + 1)

\* every combination of keywords, in small and in capital letters
KeywordTexts ==
    LET small == {JoinWords(ks, 1) : ks \in SUBSET (1..Len(DetectWords))}
    IN  small \cup {upper(t) : t \in small}

\* lead, then filler up to 0-based position `at`, then tail
LongText(lead, at, tail) ==
    lead \o [i \in 1..(at - Len(lead)) |-> "x"] \o tail

\* texts longer than the lead the classifier reads: a keyword that ends with
\* the lead, one cut by the end of the lead, and one after it
LongTexts ==
    {LongText(lead, at, tail) :
        lead \in {<<>>, Str_act \o <<" ">>, Str_circular \o <<" ">>,
                  upper(Str_regulation) \o <<" ">>},
        at   \in {LeadLength - 9, LeadLength - 2, LeadLength},
        tail \in {Str_ref \o <<" ">> \o Str_faq,
                  Str_section \o <<" ">> \o Str_chapter}}

DetectTexts == KeywordTexts \cup LongTexts

\* entry of _detect_document_type
ClassifyCall(c) ==
    /\ pc[c] = "idle"
    /\ \E text \in DetectTexts :
          call' = [call EXCEPT ![c] = [NoCall EXCEPT !.text = text]]
    /\ pc' = [pc EXCEPT ![c] = "classify"]
    /\ UNCHANGED <<config, self, sz, strat, disk, proc, comb>>

\* the tests on text_lower, to the return of the type
Classify(c) ==
    /\ pc[c] = "classify"
    /\ call' = [call EXCEPT ![c].doc_type = detect_document_type(call[c].text)]
    /\ pc' = [pc EXCEPT ![c] = "classified"]
    /\ UNCHANGED <<config, self, sz, strat, disk, proc, comb>>

\* the caller takes the type
ClassifyReturn(c) ==
    /\ pc[c] = "classified"
    /\ call' = [call EXCEPT ![c] = NoCall]
    /\ pc' = [pc EXCEPT ![c] = "idle"]
    /\ UNCHANGED <<config, self, sz, strat, disk, proc, comb>>

InitDetect ==
    /\ config = [chunk_size |-> DefaultChunkSize,
                 chunk_overlap |-> DefaultChunkOverlap]
    /\ self = FinancialTextSplitter(config.chunk_size, config.chunk_overlap)
    /\ pc = [c \in Callers |-> "idle"]
    /\ call = [c \in Callers |-> NoCall]
    /\ sz = [c \in Callers |-> NoSize]
    /\ strat = [c \in Callers |-> NoStrategy]
    /\ disk = NoDisk
    /\ proc = NoProcess
    /\ comb = NoCombine

NextDetect ==
    \/ ClassifyCall("c1")
    \/ Classify("c1")
    \/ ClassifyReturn("c1")

SpecDetect == InitDetect /\ [][NextDetect]_vars

(***************************************************************************)
(* Claims about _detect_document_type, checked under SpecDetect            *)
(***************************************************************************)
\* the text the classifier reads: the case-folded first LeadLength characters
LeadOf(text) == lower(Slice(text, 0, LeadLength))

\* the condition of the k-th rule of the classifier's rule list on a lead
RuleHolds(k, lead) ==
    CASE k = 1 -> Contains(lead, Str_regulation) /\ Contains(lead, Str_chapter)
      [] k = 2 -> Contains(lead, Str_circular) /\ Contains(lead, Str_ref)
      [] k = 3 -> \/ Contains(lead, Str_frequently_asked_questions)
                  \/ Contains(lead, Str_faq)
      [] k = 4 -> Contains(lead, Str_act) /\ Contains(lead, Str_section)
      [] k = 5 -> TRUE

RuleTypes == <<"regulation", "circular", "faq", "act", "generic">>

\* C11: the type returned is the type of the first rule, in the order
\* regulation+chapter, circular+ref, faq, act+section, otherwise generic,
\* whose condition holds on the lead text: a lead with circular, ref and faq
\* (and not regulation with chapter) is a circular, a lead with faq, act and
\* section (and no earlier rule) is a faq, and the type is always one of the
\* five
C11_FirstRuleWins ==
    \A c \in Callers :
        pc[c] = "classified" =>
            LET lead == LeadOf(call[c].text)
                type == call[c].doc_type
            IN  /\ \E k \in DOMAIN RuleTypes :
                      /\ RuleHolds(k, lead)
                      /\ \A j \in 1..(k - 1) : ~RuleHolds(j, lead)
                      /\ type = RuleTypes[k]
                /\ (RuleHolds(2, lead) /\ RuleHolds(3, lead) /\ ~RuleHolds(1, lead))
                      => type = "circular"
                /\ (RuleHolds(3, lead) /\ RuleHolds(4, lead)
                      /\ ~RuleHolds(1, lead) /\ ~RuleHolds(2, lead))
                      => type = "faq"

\* a text with circular, ref and faq has been classified as a circular
C11_Witness ==
    /\ pc["c1"] = "classified"
    /\ Contains(call["c1"].text, Str_circular)
    /\ Contains(call["c1"].text, Str_ref)
    /\ Contains(call["c1"].text, Str_faq)
    /\ Contains(call["c1"].text, Str_act)
    /\ Contains(call["c1"].text, Str_section)
    /\ call["c1"].doc_type = "circular"

\* two texts have the same first LeadLength characters up to letter case
SameLead(a, b) ==
    LET n == IF Len(a) < LeadLength THEN Len(a) ELSE LeadLength
        m == IF Len(b) < LeadLength THEN Len(b) ELSE LeadLength
    IN  n = m /\ \A i \in 1..n : lower_char(a[i]) = lower_char(b[i])

\* C12: the type depends only on the case-folded first 2000 characters: every
\* text whose first 2000 characters equal, up to letter case, those of the
\* classified text gets the same type, whatever follows position 2000
C12_LeadOnly ==
    \A c \in Callers :
        pc[c] = "classified" =>
            \A other \in DetectTexts :
                SameLead(call[c].text, other) =>
                    detect_document_type(other) = call[c].doc_type

\* a text with the keywords of the faq rule after position 2000 only has been
\* classified, and another text shares its lead and not its tail
C12_Witness ==
    /\ pc["c1"] = "classified"
    /\ Len(call["c1"].text) > LeadLength
    /\ Contains(SliceFrom(call["c1"].text, LeadLength), Str_faq)
    /\ call["c1"].doc_type = "generic"
    /\ \E other \in DetectTexts :
          /\ other # call["c1"].text
          /\ SameLead(call["c1"].text, other)
          /\ Contains(SliceFrom(other, LeadLength), Str_section)

(***************************************************************************)
(* _split_legal_document, _split_circular and _split_faq run step by step  *)
(* by one caller                                                           *)
(***************************************************************************)
\* "Regulation chapter. Cc dd." and "Act section. Aa bb.": a regulation and
\* an act without a section marker
TextLegalPlain == <<"R","e","g","u","l","a","t","i","o","n"," ","c","h","a","p","t","e","r","."," ","C","c"," ","d","d",".">>

TextActPlain == <<"A","c","t"," ","s","e","c","t","i","o","n","."," ","A","a"," ","b","b",".">>

\* "Act Section 1Section 2 Bb.": a marker directly after a marker
TextActTwice == <<"A","c","t"," ","S","e","c","t","i","o","n"," ","1","S","e","c","t","i","o","n"," ","2"," ","B","b",".">>

\* fifteen times "Aa bb. ": a segment of more than MinSegmentLength characters
LongSegment == [i \in 1..(15 * 7) |-> (UnitPlain \o <<" ">>)[((i - 1) % 7) + 1]]

\* "Regulation chapter. Section 1 Aa bb. ... Aa bb. Section 2 Cc."
TextLegalLong ==
    <<"R","e","g","u","l","a","t","i","o","n"," ","c","h","a","p","t","e","r","."," ","S","e","c","t","i","o","n"," ","1"," ">>
    \o LongSegment \o <<"S","e","c","t","i","o","n"," ","2"," ","C","c",".">>

\* "Circular ref. Aa bb.": a circular without a numbered point
TextCircularPlain == <<"C","i","r","c","u","l","a","r"," ","r","e","f","."," ","A","a"," ","b","b",".">>

\* "Circular ref\n1. Aa bb. Cc dd.\n2. Ee."
TextCircularLong == <<"C","i","r","c","u","l","a","r"," ","r","e","f","\n","1","."," ","A","a"," ","b","b","."," ","C","c"," ","d","d",".","\n","2","."," ","E","e",".">>

\* "FAQ. Bb cc.": a FAQ without a question/answer pair
TextFaqPlain == <<"F","A","Q","."," ","B","b"," ","c","c",".">>

\* "FAQ Q: Bb cc dd? A: Ee ff gg hh x. Yy zz."
TextFaqLong == <<"F","A","Q"," ","Q",":"," ","B","b"," ","c","c"," ","d","d","?"," ","A",":"," ","E","e"," ","f","f"," ","g","g"," ","h","h"," ","x","."," ","Y","y"," ","z","z",".">>

\* the documents the strategies are run on
StrategyTexts ==
    {TextLegal, TextLegalPlain, TextActPlain, TextActTwice, TextLegalLong,
     TextCircular, TextCircularPlain, TextCircularLong,
     TextFaq, TextFaqPlain, TextFaqLong, TextQa \o <<" ">> \o Str_faq}

\* a call of _split_by_size(text) noted in the frame: the text handed over
\* and the numbers of the first and last piece it is made of
Handed(text, from, to) == [text |-> text, from |-> from, to |-> to]

\* entry of _split_legal_document (split_text calls it for a regulation or
\* an act): the text is cut at the section markers
LegalCall(c) ==
    /\ pc[c] = "idle"
    /\ \E text \in StrategyTexts :
          /\ detect_document_type(text) \in {"regulation", "act"}
          /\ strat' = [strat EXCEPT ![c] =
                [NoStrategy EXCEPT !.method = "legal", !.text = text, !.i = 1,
                    !.pieces = ReSplit(self.section_markers, text, 1, 1, TRUE, TRUE)]]
    /\ pc' = [pc EXCEPT ![c] = "legal_loop"]
    /\ UNCHANGED <<config, self, call, sz, disk, proc, comb>>

\* LegalPart that keeps the running segment when a marker starts
LegalPartMerging(c) ==
    /\ pc[c] = "legal_loop"
    /\ strat[c].i <= Len(strat[c].pieces)
    /\ LET f     == strat[c]
           part  == f.pieces[f.i]
           grown == f.current_chunk \o part
           first == IF f.current_chunk = <<>> THEN f.i ELSE f.first
       IN  IF 2 * Len(grown) > 3 * self.chunk_size
           THEN strat' = [strat EXCEPT ![c] =
                   [f EXCEPT !.chunks = @ \o split_generic(self, grown),
                             !.handed = Append(@, Handed(grown, first, f.i)),
                             !.current_chunk = <<>>, !.first = 0,
                             !.i = @ + 1]]
           ELSE strat' = [strat EXCEPT ![c] =
                   [f EXCEPT !.current_chunk = grown, !.first = first,
                             !.i = @ + 1]]
    /\ UNCHANGED <<config, self, pc, call, sz, disk, proc, comb>>

\* one iteration of `for part in sections`
LegalPart(c) ==
    /\ pc[c] = "legal_loop"
    /\ strat[c].i <= Len(strat[c].pieces)
    /\ LET f     == strat[c]
           part  == f.pieces[f.i]
           grown == f.current_chunk \o part
           first == IF f.current_chunk = <<>> THEN f.i ELSE f.first
       IN  IF MatchAny(self.section_markers, part, 1, TRUE) > 0
           THEN IF f.current_chunk # <<>> /\ Len(f.current_chunk) > MinSegmentLength
                THEN strat' = [strat EXCEPT ![c] =
                        [f EXCEPT !.chunks = @ \o split_generic(self, f.current_chunk),
                                  !.handed = Append(@, Handed(f.current_chunk,
                                                              f.first, f.i - 1)),
                                  !.current_chunk = part, !.first = f.i,
                                  !.i = @ + 1]]
                ELSE strat' = [strat EXCEPT ![c] =
                        [f EXCEPT !.current_chunk = part, !.first = f.i,
                                  !.i = @ + 1]]
           ELSE \* len(current_chunk) > chunk_size * 1.5
                IF 2 * Len(grown) > 3 * self.chunk_size
                THEN strat' = [strat EXCEPT ![c] =
                        [f EXCEPT !.chunks = @ \o split_generic(self, grown),
                                  !.handed = Append(@, Handed(grown, first, f.i)),
                                  !.current_chunk = <<>>, !.first = 0,
                                  !.i = @ + 1]]
                ELSE strat' = [strat EXCEPT ![c] =
                        [f EXCEPT !.current_chunk = grown, !.first = first,
                                  !.i = @ + 1]]
    /\ UNCHANGED <<config, self, pc, call, sz, disk, proc, comb>>

\* after the loop: `if current_chunk`, and the return of the chunks
LegalExit(c) ==
    /\ pc[c] = "legal_loop"
    /\ strat[c].i > Len(strat[c].pieces)
    /\ LET f == strat[c]
       IN  IF f.current_chunk # <<>>
           THEN strat' = [strat EXCEPT ![c] =
                   [f EXCEPT !.chunks = @ \o split_generic(self, f.current_chunk),
                             !.handed = Append(@, Handed(f.current_chunk,
                                                         f.first, f.i - 1)),
                             !.current_chunk = <<>>, !.first = 0]]
           ELSE UNCHANGED strat
    /\ pc' = [pc EXCEPT ![c] = "strategy_done"]
    /\ UNCHANGED <<config, self, call, sz, disk, proc, comb>>

\* entry of _split_circular (split_text calls it for a circular): the text is
\* cut at the numbered points
CircularCall(c) ==
    /\ pc[c] = "idle"
    /\ \E text \in StrategyTexts :
          /\ detect_document_type(text) = "circular"
          /\ strat' = [strat EXCEPT ![c] =
                [NoStrategy EXCEPT !.method = "circular", !.text = text, !.i = 1,
                    !.pieces = ReSplit(<<numbered_point>>, text, 1, 1, FALSE, FALSE)]]
    /\ pc' = [pc EXCEPT ![c] = "circular_loop"]
    /\ UNCHANGED <<config, self, call, sz, disk, proc, comb>>

\* CircularPoint that leaves out a point with no text
CircularPointSkippingEmpty(c) ==
    /\ pc[c] = "circular_loop"
    /\ strat[c].i <= Len(strat[c].pieces)
    /\ LET f     == strat[c]
           point == f.pieces[f.i]
       IN  IF strip(point) = <<>>
           THEN strat' = [strat EXCEPT ![c] = [f EXCEPT !.i = @ + 1]]
           ELSE IF Len(point) <= self.chunk_size
           THEN strat' = [strat EXCEPT ![c] =
                   [f EXCEPT !.chunks = Append(@, strip(point)), !.i = @ + 1]]
           ELSE strat' = [strat EXCEPT ![c] =
                   [f EXCEPT !.chunks = @ \o split_generic(self, point),
                             !.handed = Append(@, Handed(point, f.i, f.i)),
                             !.i = @ + 1]]
    /\ UNCHANGED <<config, self, pc, call, sz, disk, proc, comb>>

\* one iteration of `for point in points`
CircularPoint(c) ==
    /\ pc[c] = "circular_loop"
    /\ strat[c].i <= Len(strat[c].pieces)
    /\ LET f     == strat[c]
           point == f.pieces[f.i]
       IN  IF Len(point) <= self.chunk_size
           THEN strat' = [strat EXCEPT ![c] =
                   [f EXCEPT !.chunks = Append(@, strip(point)), !.i = @ + 1]]
           ELSE strat' = [strat EXCEPT ![c] =
                   [f EXCEPT !.chunks = @ \o split_generic(self, point),
                             !.handed = Append(@, Handed(point, f.i, f.i)),
                             !.i = @ + 1]]
    /\ UNCHANGED <<config, self, pc, call, sz, disk, proc, comb>>

\* after the loop: the return of the chunks
CircularExit(c) ==
    /\ pc[c] = "circular_loop"
    /\ strat[c].i > Len(strat[c].pieces)
    /\ pc' = [pc EXCEPT ![c] = "strategy_done"]
    /\ UNCHANGED <<config, self, call, sz, strat, disk, proc, comb>>

\* entry of _split_faq (split_text calls it for a faq): the matches of
\* qa_pattern are found
FaqCall(c) ==
    /\ pc[c] = "idle"
    /\ \E text \in StrategyTexts :
          /\ detect_document_type(text) = "faq"
          /\ strat' = [strat EXCEPT ![c] =
                [NoStrategy EXCEPT !.method = "faq", !.text = text, !.i = 1,
                                   !.pieces = FindQA(text, 1)]]
    /\ pc' = [pc EXCEPT ![c] = "faq_loop"]
    /\ UNCHANGED <<config, self, call, sz, disk, proc, comb>>

\* one iteration of `for match in matches`
FaqMatch(c) ==
    /\ pc[c] = "faq_loop"
    /\ strat[c].i <= Len(strat[c].pieces)
    /\ LET f        == strat[c]
           match    == f.pieces[f.i]
           question == strip(match.group1)
           answer   == strip(match.group2)
           cut      == self.chunk_size - Len(question) - 10
       IN  strat' = [strat EXCEPT ![c] =
              [f EXCEPT !.chunks = @ \o FaqChunks(self, match),
                        !.handed =
                            IF /\ Len(strip(match.group0)) > self.chunk_size
                               /\ Len(answer) > self.chunk_size
                            THEN Append(@, Handed(Str_continued
                                                    \o SliceFrom(answer, cut),
                                                  f.i, f.i))
                            ELSE @,
                        !.i = @ + 1]]
    /\ UNCHANGED <<config, self, pc, call, sz, disk, proc, comb>>

\* FaqExit that returns the chunks of the matches as they are
FaqExitNoFallback(c) ==
    /\ pc[c] = "faq_loop"
    /\ strat[c].i > Len(strat[c].pieces)
    /\ pc' = [pc EXCEPT ![c] = "strategy_done"]
    /\ UNCHANGED <<config, self, call, sz, strat, disk, proc, comb>>

\* after the loop: `if not chunks`, and the return of the chunks
FaqExit(c) ==
    /\ pc[c] = "faq_loop"
    /\ strat[c].i > Len(strat[c].pieces)
    /\ LET f == strat[c]
       IN  IF f.chunks = <<>>
           THEN strat' = [strat EXCEPT ![c] =
                   [f EXCEPT !.chunks = split_generic(self, f.text),
                             !.handed = Append(@, Handed(f.text, 0, 0))]]
           ELSE UNCHANGED strat
    /\ pc' = [pc EXCEPT ![c] = "strategy_done"]
    /\ UNCHANGED <<config, self, call, sz, disk, proc, comb>>

\* split_text takes the chunks of the strategy
StrategyReturn(c) ==
    /\ pc[c] = "strategy_done"
    /\ strat' = [strat EXCEPT ![c] = NoStrategy]
    /\ pc' = [pc EXCEPT ![c] = "idle"]
    /\ UNCHANGED <<config, self, call, sz, disk, proc, comb>>

InitStrategy ==
    /\ config \in SplitConfigs
    /\ self = FinancialTextSplitter(config.chunk_size, config.chunk_overlap)
    /\ pc = [c \in Callers |-> "idle"]
    /\ call = [c \in Callers |-> NoCall]
    /\ sz = [c \in Callers |-> NoSize]
    /\ strat = [c \in Callers |-> NoStrategy]
    /\ disk = NoDisk
    /\ proc = NoProcess
    /\ comb = NoCombine

NextStrategy ==
    \/ LegalCall("c1")
    \/ LegalPart("c1")
    \/ LegalExit("c1")
    \/ CircularCall("c1")
    \/ CircularPoint("c1")
    \/ CircularExit("c1")
    \/ FaqCall("c1")
    \/ FaqMatch("c1")
    \/ FaqExit("c1")
    \/ StrategyReturn("c1")

SpecStrategy == InitStrategy /\ [][NextStrategy]_vars

(***************************************************************************)
(* Claims about the strategies, checked under SpecStrategy                 *)
(***************************************************************************)
\* the strategy found none of its boundaries: no section marker, no numbered
\* point, no question/answer pair
NoBoundaries(f) ==
    IF f.method = "faq" THEN f.pieces = <<>> ELSE Len(f.pieces) = 1

\* C14: when the strategy finds none of its boundaries, the chunks it returns
\* are those of the Size-Bounded Chunker for the whole text, and there is at
\* least one
C14_GracefulDegradation ==
    \A c \in Callers :
        (pc[c] = "strategy_done" /\ NoBoundaries(strat[c])) =>
            /\ strat[c].chunks =
                  split_by_size(strat[c].text, self.chunk_size, self.chunk_overlap)
            /\ strat[c].chunks # <<>>

\* a FAQ without a question/answer pair, longer than chunk_size, has been
\* split into several chunks
C14_Witness ==
    /\ pc["c1"] = "strategy_done"
    /\ strat["c1"].method = "faq"
    /\ strat["c1"].pieces = <<>>
    /\ Len(strat["c1"].text) > self.chunk_size
    /\ Len(strat["c1"].chunks) > 1

\* a piece of the partition is a section marker
IsAnchor(piece) == MatchAny(self.section_markers, piece, 1, TRUE) > 0

\* C17: on the regulation/act path a running segment of at most 100
\* characters that is current when a new anchor starts is merged forward:
\* the segment that follows begins with it
C17_ShortSegmentMerged ==
    [][\A c \in Callers :
          (/\ pc[c] = "legal_loop"
           /\ strat[c].i <= Len(strat[c].pieces)
           /\ strat'[c].i = strat[c].i + 1
           /\ IsAnchor(strat[c].pieces[strat[c].i])
           /\ strat[c].current_chunk # <<>>
           /\ Len(strat[c].current_chunk) <= MinSegmentLength)
          => IsPrefix(strat[c].current_chunk, strat'[c].current_chunk)]_vars

\* the pieces a to b of a partition, joined
RECURSIVE JoinPieces(_, _, _)
JoinPieces(pieces, a, b) ==
    IF a > b THEN <<>> ELSE pieces[a] \o JoinPieces(pieces, a + 1, b)

\* the chunks of the Size-Bounded Chunker for the texts handed[k..], in order
RECURSIVE ChunksOfHanded(_, _)
ChunksOfHanded(handed, k) ==
    IF k > Len(handed) THEN <<>>
    ELSE split_by_size(handed[k].text, self.chunk_size, self.chunk_overlap)
         \o ChunksOfHanded(handed, k + 1)

\* C18: on the regulation/act path the running segment is closed at every
\* anchor and whenever it exceeds 1.5 x chunk_size after a piece is appended;
\* the running segment and every segment handed to the Size-Bounded Chunker
\* are consecutive pieces with an anchor at the start only; the output is the
\* chunks of the handed segments, segment by segment, in document order
C18_SegmentsClosedAtAnchors ==
    \A c \in Callers :
        strat[c].method = "legal" =>
            LET f == strat[c]
            IN  /\ (pc[c] = "legal_loop" /\ f.i > 1 /\ IsAnchor(f.pieces[f.i - 1]))
                      => (f.current_chunk = f.pieces[f.i - 1] /\ f.first = f.i - 1)
                /\ (pc[c] = "legal_loop" /\ f.i > 1 /\ ~IsAnchor(f.pieces[f.i - 1]))
                      => 2 * Len(f.current_chunk) <= 3 * self.chunk_size
                /\ f.current_chunk # <<>> =>
                      /\ f.first \in 1..(f.i - 1)
                      /\ f.current_chunk = JoinPieces(f.pieces, f.first, f.i - 1)
                      /\ \A j \in (f.first + 1)..(f.i - 1) : ~IsAnchor(f.pieces[j])
                /\ \A k \in DOMAIN f.handed :
                      /\ f.handed[k].from \in 1..f.handed[k].to
                      /\ f.handed[k].to < f.i
                      /\ f.handed[k].text =
                            JoinPieces(f.pieces, f.handed[k].from, f.handed[k].to)
                      /\ \A j \in (f.handed[k].from + 1)..f.handed[k].to :
                            ~IsAnchor(f.pieces[j])
                      /\ k > 1 => f.handed[k - 1].to < f.handed[k].from
                /\ f.chunks = ChunksOfHanded(f.handed, 1)

\* a regulation has been split: a segment that begins with an anchor was
\* closed by the next anchor, and a later segment was handed over after it
C18_Witness ==
    /\ pc["c1"] = "strategy_done"
    /\ strat["c1"].method = "legal"
    /\ \E k \in DOMAIN strat["c1"].handed :
          /\ k < Len(strat["c1"].handed)
          /\ IsAnchor(strat["c1"].pieces[strat["c1"].handed[k].from])
          /\ IsAnchor(strat["c1"].pieces[strat["c1"].handed[k].to + 1])
          /\ Len(strat["c1"].handed[k].text) > MinSegmentLength

\* the number of numbered-point boundaries of a text from position i on
RECURSIVE CountBoundaries(_, _)
CountBoundaries(text, i) ==
    LET p == NextMatch(<<numbered_point>>, text, i, FALSE)
    IN  IF p > Len(text) THEN 0
        ELSE 1 + CountBoundaries(text, MatchAny(<<numbered_point>>, text, p, FALSE))

\* the chunks the circular path gives for the points from number i on: the
\* trimmed point, or the chunks of the Size-Bounded Chunker for a point
\* longer than chunk_size
RECURSIVE PointChunks(_, _)
PointChunks(points, i) ==
    IF i > Len(points) THEN <<>>
    ELSE (IF Len(points[i]) <= self.chunk_size
          THEN <<strip(points[i])>>
          ELSE split_by_size(points[i], self.chunk_size, self.chunk_overlap))
         \o PointChunks(points, i + 1)

\* C19: on the circular path a text with k numbered-point boundaries has k + 1
\* points; when the preamble and every point have length <= chunk_size there
\* are exactly k + 1 chunks, the i-th the trimmed text of the i-th point; a
\* point longer than chunk_size is replaced, in place, by the chunks of the
\* Size-Bounded Chunker for it
C19_CircularPoints ==
    \A c \in Callers :
        (pc[c] = "strategy_done" /\ strat[c].method = "circular") =>
            LET f == strat[c]
                k == CountBoundaries(f.text, 1)
            IN  /\ Len(f.pieces) = k + 1
                /\ \A i \in DOMAIN f.pieces : Contains(f.text, f.pieces[i])
                /\ (\A i \in DOMAIN f.pieces : Len(f.pieces[i]) <= self.chunk_size)
                      => /\ Len(f.chunks) = k + 1
                         /\ \A i \in DOMAIN f.pieces :
                               f.chunks[i] = strip(f.pieces[i])
                /\ f.chunks = PointChunks(f.pieces, 1)

\* a circular with two boundaries has been split, and a point longer than
\* chunk_size was replaced by several chunks between the chunks of its
\* neighbours
C19_Witness ==
    /\ pc["c1"] = "strategy_done"
    /\ strat["c1"].method = "circular"
    /\ Len(strat["c1"].pieces) = 3
    /\ Len(strat["c1"].pieces[2]) > self.chunk_size
    /\ Len(strat["c1"].pieces[3]) <= self.chunk_size
    /\ Len(strat["c1"].chunks) > 3
    /\ strat["c1"].chunks[Len(strat["c1"].chunks)] = strip(strat["c1"].pieces[3])

\* "continued", the word of the continuation marker
ContinuationWord == SubSeq(Str_continued, 4, 12)

\* C20: on the FAQ path, when an answer alone exceeds chunk_size, every chunk
\* emitted for the remainder of the answer (every chunk of the match after
\* the one with the question) carries the continuation marker
C20_EveryContinuationMarked ==
    [][\A c \in Callers :
          (/\ pc[c] = "faq_loop"
           /\ strat[c].i <= Len(strat[c].pieces)
           /\ strat'[c].i = strat[c].i + 1
           /\ Len(strip(strat[c].pieces[strat[c].i].group2)) > self.chunk_size)
          => \A k \in (Len(strat[c].chunks) + 2)..Len(strat'[c].chunks) :
                Contains(strat'[c].chunks[k], ContinuationWord)]_vars

\* C21: on the FAQ path, when an answer alone exceeds chunk_size, the first
\* chunk emitted for the pair (the question plus the truncated answer head)
\* has length <= chunk_size for every question length, also when the cut
\* index chunk_size - len(question) - 10 is zero or negative
C21_FirstFaqChunkBounded ==
    [][\A c \in Callers :
          (/\ pc[c] = "faq_loop"
           /\ strat[c].i <= Len(strat[c].pieces)
           /\ strat'[c].i = strat[c].i + 1
           /\ Len(strip(strat[c].pieces[strat[c].i].group2)) > self.chunk_size)
          => Len(strat'[c].chunks[Len(strat[c].chunks) + 1])
                <= self.chunk_size]_vars

(***************************************************************************)
(* Further claims about the Size-Bounded Chunker, checked under SpecSize   *)
(***************************************************************************)
\* C16: when every sentence of the text has length <= chunk_size, every chunk
\* of the Size-Bounded Chunker has length <= chunk_size + chunk_overlap; the
\* text "1. First point about margin. 2. Second point about insider
\* trading." with chunk_size 40 and overlap 5 gives 2 chunks of at most 45
\* characters
C16_BoundWithOverlap ==
    \A c \in Callers :
        pc[c] = "size_done" =>
            /\ (\A i \in DOMAIN split_sentences(sz[c].text) :
                    Len(split_sentences(sz[c].text)[i]) <= self.chunk_size)
                  => \A k \in DOMAIN sz[c].chunks :
                        Len(sz[c].chunks[k]) <= self.chunk_size + self.chunk_overlap
            /\ (config = ScenarioConfig /\ sz[c].text = TextScenario)
                  => /\ Len(sz[c].chunks) = 2
                     /\ \A k \in DOMAIN sz[c].chunks : Len(sz[c].chunks[k]) <= 45

\* a text whose sentences all fit chunk_size has been split, and the overlap
\* at the start of a chunk makes that chunk longer than chunk_size
C16_Witness ==
    /\ pc["c1"] = "size_done"
    /\ sz["c1"].sentences # <<>>
    /\ \A i \in DOMAIN sz["c1"].sentences :
          Len(sz["c1"].sentences[i]) <= self.chunk_size
    /\ \E k \in DOMAIN sz["c1"].chunks :
          /\ k > 1
          /\ Len(sz["c1"].chunks[k]) > self.chunk_size
          /\ Len(sz["c1"].chunks[k]) <= self.chunk_size + self.chunk_overlap
(***************************************************************************)
(* split_text run by one caller on texts with section markers and          *)
(* regulation keywords                                                     *)
(***************************************************************************)
\* "Section 1", "chapter iv", "insider", "Trading", "nse circular" and
\* "income tax": the words the texts are made of
TagWords ==
    {Str_Section \o <<" ", "1">>,
     Str_chapter \o <<" ", "i", "v">>,
     Str_insider,
     <<"T">> \o SubSeq(Str_trading, 2, Len(Str_trading)),
     Str_nse \o <<" ">> \o Str_circular,
     Str_income \o <<" ">> \o Str_tax}

\* " ", ". " and "\n": what stands between two words of a text
TagSeparators == {<<" ">>, <<".", " ">>, <<"\n">>}

\* the words ws from number i on, with sep between them
RECURSIVE JoinTagWords(_, _, _)
JoinTagWords(ws, sep, i) ==
    IF i > Len(ws) THEN <<>>
    ELSE IF i = Len(ws) THEN ws[i]
    ELSE ws[i] \o sep \o JoinTagWords(ws, sep, i + 1)

\* every text of up to MaxUnits words
TagTexts ==
    {JoinTagWords(ws, sep, 1) :
        ws \in UNION {[1..n -> TagWords] : n \in 1..MaxUnits},
        sep \in TagSeparators}

\* entry of split_text with one of these texts and no metadata
TagCall(c) ==
    /\ pc[c] = "idle"
    /\ \E text \in TagTexts :
          call' = [call EXCEPT ![c] = [NoCall EXCEPT !.text = text,
                                                  !.metadata = None]]
    /\ pc' = [pc EXCEPT ![c] = "detect"]
    /\ UNCHANGED <<config, self, sz, strat, disk, proc, comb>>

InitTag ==
    /\ config \in SplitConfigs
    /\ self = FinancialTextSplitter(config.chunk_size, config.chunk_overlap)
    /\ pc = [c \in Callers |-> "idle"]
    /\ call = [c \in Callers |-> NoCall]
    /\ sz = [c \in Callers |-> NoSize]
    /\ strat = [c \in Callers |-> NoStrategy]
    /\ disk = NoDisk
    /\ proc = NoProcess
    /\ comb = NoCombine

NextTag ==
    \/ TagCall("c1")
    \/ DetectType("c1")
    \/ SplitChunks("c1")
    \/ AddMetadata("c1")
    \/ SplitTextReturn("c1")

SpecTag == InitTag /\ [][NextTag]_vars

(***************************************************************************)
(* Claims about the chunk metadata, checked under SpecTag                  *)
(***************************************************************************)
\* the position after the structural anchor the text begins with at
\* position i (0 when it begins with none): some anchor pattern matches
\* there, case-insensitively
AnchorEnd(text, i) ==
    LET ends == {MatchAt(re_compile(section_markers[p]), text, i, TRUE) :
                    p \in DOMAIN section_markers} \ {0}
    IN  IF ends = {} THEN 0 ELSE CHOOSE e \in ends : TRUE

\* C22: the section label of a chunk is present exactly when the chunk text
\* begins, at its very first character and case-insensitively, with one of
\* the structural anchor patterns; it is then the matched anchor text as
\* written in the chunk, and an anchor later in the chunk never sets it
C22_SectionLabel ==
    \A c \in Callers :
        \A k \in DOMAIN call[c].result :
            LET chunk   == call[c].result[k][1]
                section == call[c].result[k][2].section
            IN  /\ (section # None) <=> (AnchorEnd(chunk, 1) > 0)
                /\ (section # None)
                      => section = Some(SubSeq(chunk, 1, AnchorEnd(chunk, 1) - 1))

\* a text has been split into a chunk that begins with "chapter iv" and has
\* that label, and a chunk with an anchor after its first word and no label
C22_Witness ==
    /\ pc["c1"] = "done"
    /\ \E k \in DOMAIN call["c1"].result :
          /\ IsPrefix(Str_chapter, call["c1"].result[k][1])
          /\ call["c1"].result[k][2].section
                = Some(Str_chapter \o <<" ", "i", "v">>)
    /\ \E k \in DOMAIN call["c1"].result :
          /\ \E i \in 2..Len(call["c1"].result[k][1]) :
                AnchorEnd(call["c1"].result[k][1], i) > 0
          /\ call["c1"].result[k][2].section = None

\* the categories in their fixed order, each with its keyword chains
Categories ==
    <<[type |-> "SEBI_LODR",
       chains |-> {<<Str_listing, Str_obligation, Str_disclosure>>}],
      [type |-> "SEBI_PIT",
       chains |-> {<<Str_insider, Str_trading>>, <<Str_prohibition, Str_insider>>}],
      [type |-> "SEBI_TAKEOVER",
       chains |-> {<<Str_takeover, Str_regulation>>,
                   <<Str_substantial, Str_acquisition>>}],
      [type |-> "RBI_MASTER",
       chains |-> {<<Str_master, Str_direction>>, <<Str_master, Str_circular>>}],
      [type |-> "NSE_CIRCULAR",
       chains |-> {<<Str_nse, Str_circular>>, <<Str_exchange, Str_notice>>}],
      [type |-> "INCOME_TAX",
       chains |-> {<<Str_income, Str_tax>>, <<Str_section, Str_80>>,
                   <<Str_capital, Str_gain>>}]>>

\* keyword b occurs in s after the keyword a that stands at position i, on
\* the same line: the position of such a b, 0 when there is none
After(s, a, i, b) ==
    LET js == {j \in (i + Len(a))..Len(s) :
                  /\ OccursAt(s, b, j)
                  /\ \A x \in (i + Len(a))..(j - 1) : s[x] # "\n"}
    IN  IF js = {} THEN 0 ELSE CHOOSE j \in js : \A q \in js : j <= q

\* the two or three keywords of a chain occur in s in their order
InOrder(s, kws) ==
    \E i \in 1..Len(s) :
        /\ OccursAt(s, kws[1], i)
        /\ After(s, kws[1], i, kws[2]) > 0
        /\ \/ Len(kws) = 2
           \/ After(s, kws[2], After(s, kws[1], i, kws[2]), kws[3]) > 0

\* the keyword pattern of category n matches the text
CategoryMatches(n, s) == \E kws \in Categories[n].chains : InOrder(s, kws)

\* C23: the regulation_type of a chunk is the first category, in the order
\* SEBI_LODR, SEBI_PIT, SEBI_TAKEOVER, RBI_MASTER, NSE_CIRCULAR, INCOME_TAX,
\* whose keyword pattern matches the lower-cased text of the chunk, and is
\* absent when none matches; it depends on the chunk's own text only, not on
\* the document or the neighbouring chunks
C23_FirstCategoryWins ==
    \A c \in Callers :
        \A k \in DOMAIN call[c].result :
            LET text == lower(call[c].result[k][1])
                type == call[c].result[k][2].regulation_type
                hits == {n \in DOMAIN Categories : CategoryMatches(n, text)}
            IN  /\ (hits = {}) <=> (type = None)
                /\ \A n \in hits :
                      (\A m \in hits : n <= m) => type = Some(Categories[n].type)

\* a document has been split into a chunk that matches both NSE_CIRCULAR and
\* INCOME_TAX and is an NSE_CIRCULAR chunk, and a chunk with a keyword of
\* SEBI_PIT alone that has no type
C23_Witness ==
    /\ pc["c1"] = "done"
    /\ \E k \in DOMAIN call["c1"].result :
          /\ CategoryMatches(5, lower(call["c1"].result[k][1]))
          /\ CategoryMatches(6, lower(call["c1"].result[k][1]))
          /\ call["c1"].result[k][2].regulation_type = Some("NSE_CIRCULAR")
    /\ \E k \in DOMAIN call["c1"].result :
          /\ Contains(lower(call["c1"].result[k][1]), Str_trading)
          /\ call["c1"].result[k][2].regulation_type = None
(***************************************************************************)
(* Claims about the sentence segmenter, checked under SpecSize             *)
(***************************************************************************)
\* the positions of the text where a sentence of the list ends, the
\* sentences k.. being looked for from position pos on
RECURSIVE SentenceEndsFrom(_, _, _, _)
SentenceEndsFrom(text, sentences, k, pos) ==
    IF k > Len(sentences) THEN {}
    ELSE LET first == SkipWhile(text, pos, Whitespace)
             last  == first + Len(sentences[k]) - 1
         IN  IF sentences[k] = <<>>
             THEN SentenceEndsFrom(text, sentences, k + 1, pos)
             ELSE {last} \cup SentenceEndsFrom(text, sentences, k + 1, last + 1)

\* the token that stands immediately before position p, without the
\* punctuation marks at its end
TokenBefore(text, p) ==
    LET spaces == {x \in 1..(p - 1) : text[x] \in Whitespace}
        from   == IF spaces = {} THEN 1
                  ELSE 1 + CHOOSE x \in spaces : \A y \in spaces : y <= x
    IN  SubSeq(text, from, SkipBack(text, p - 1, sentence_endings))

\* the split at the candidate at position p is to be suppressed: the token
\* before it is an abbreviation, or the next non-whitespace character is a
\* lower-case letter
Suppressed(text, p) ==
    LET next == SkipWhile(text, p + 1, Whitespace)
    IN  \/ TokenBefore(text, p) \in abbreviations
        \/ (next <= Len(text) /\ text[next] \in LowerSet)

\* C24: the split at a '.', '!' or '?' is suppressed exactly when the token
\* before the punctuation is in the abbreviation set or the following
\* non-whitespace character is lower-case; every other candidate, one
\* followed by a digit for example, ends a sentence
C24_SplitAtCandidates ==
    \A c \in Callers :
        pc[c] = "size_loop" =>
            \A p \in DOMAIN sz[c].text :
                sz[c].text[p] \in sentence_endings =>
                    (p \in SentenceEndsFrom(sz[c].text, sz[c].sentences, 1, 1)
                        <=> ~Suppressed(sz[c].text, p))

\* the sentences k.. stand in the text from position pos on, one after the
\* other in their order, with nothing but whitespace between them and after
\* the last one
RECURSIVE InOrderFrom(_, _, _, _)
InOrderFrom(text, sentences, k, pos) ==
    LET first == SkipWhile(text, pos, Whitespace)
    IN  IF k > Len(sentences) THEN first > Len(text)
        ELSE /\ first + Len(sentences[k]) - 1 <= Len(text)
             /\ SubSeq(text, first, first + Len(sentences[k]) - 1) = sentences[k]
             /\ InOrderFrom(text, sentences, k + 1, first + Len(sentences[k]))

\* C25: the sentences returned are a finite, order-preserving partition of
\* the text: put one after the other they give the text up to the whitespace
\* at the sentence boundaries, no character is in two sentences, and no
\* sentence is empty, also for a text that ends with whitespace
C25_SentencePartition ==
    \A c \in Callers :
        pc[c] = "size_loop" =>
            /\ InOrderFrom(sz[c].text, sz[c].sentences, 1, 1)
            /\ \A k \in DOMAIN sz[c].sentences : sz[c].sentences[k] # <<>>

(***************************************************************************)
(* A claim about the overlap of the Size-Bounded Chunker, checked under    *)
(* SpecSize                                                                *)
(***************************************************************************)
\* C26: in every chunk that starts with overlap text, the overlap and the
\* sentence that follows it are separated by whitespace: the last word of
\* the overlap is never fused with the first word of the sentence
C26_OverlapSeparated ==
    \A c \in Callers :
        (/\ pc[c] = "size_loop"
         /\ sz[c].st.branch = "overlap"
         /\ sz[c].st.overlap_text # <<>>
         /\ sz[c].sentences[sz[c].i - 1] # <<>>)
        => LET overlap  == sz[c].st.overlap_text
               sentence == sz[c].sentences[sz[c].i - 1]
           IN  /\ sz[c].st.current_chunk = overlap \o sentence \o <<" ">>
               /\ overlap[Len(overlap)] \in Whitespace

(***************************************************************************)
(* The raw directory                                                       *)
(***************************************************************************)
\* the last modification time a file of the model can get
MaxModified == 2

\* the texts a raw document can hold: "", "  ", "Aa bb." and "Aa bb. Cc dd."
Contents == {TextEmpty, TextBlank, UnitPlain, TextGeneric}

\* a file: its text and its modification time
File(content, modified) == [content |-> content, modified |-> modified]

\* a document is downloaded into the raw directory
AddFile ==
    /\ proc.pc = "exited"
    /\ \E f \in Files, content \in Contents :
          /\ disk.raw[f] = None
          /\ disk' = [disk EXCEPT !.raw[f] = File(content, 1)]
    /\ UNCHANGED <<config, self, pc, call, sz, strat, proc, comb>>

\* a document is written again with another text
ModifyFile ==
    /\ proc.pc = "exited"
    /\ \E f \in Files, content \in Contents :
          /\ disk.raw[f] # None
          /\ disk.raw[f].content # content
          /\ disk.raw[f].modified < MaxModified
          /\ disk' = [disk EXCEPT !.raw[f] = File(content, @.modified + 1)]
    /\ UNCHANGED <<config, self, pc, call, sz, strat, proc, comb>>

\* a document is written again with the text it has
TouchFile ==
    /\ proc.pc = "exited"
    /\ \E f \in Files :
          /\ disk.raw[f] # None
          /\ disk.raw[f].modified < MaxModified
          /\ disk' = [disk EXCEPT !.raw[f].modified = @ + 1]
    /\ UNCHANGED <<config, self, pc, call, sz, strat, proc, comb>>

\* RAW_DIR.rglob: the files of the raw directory, in one of the orders the
\* file system can list them
Listings(raw) ==
    LET present == {f \in Files : raw[f] # None}
    IN  {order \in [1..Cardinality(present) -> present] :
            \A i, j \in DOMAIN order : i # j => order[i] # order[j]}

(***************************************************************************)
(* src/process_documents.py run as a program                               *)
(***************************************************************************)
\* hashlib.md5(bytes).hexdigest(): equal for equal contents, and taken to
\* differ for different ones
md5(bytes) == <<"md5", bytes>>

\* RecursiveCharacterTextSplitter.split_text on a text within its chunk_size
\* (800 in CHUNK_CONFIG): the stripped text as one chunk, none for a blank
\* text
recursive_split_text(text) ==
    IF strip(text) = <<>> THEN <<>> ELSE <<strip(text)>>

\* main(): the options are read, DocumentProcessor() loads the cache, and
\* the files to process are found (every raw document, or the one named by
\* --file)
MainCall ==
    /\ proc.pc = "exited"
    /\ \E update \in BOOLEAN,
          all_files \in Listings(disk.raw)
                           \cup {<<f>> : f \in {g \in Files : disk.raw[g] # None}} :
          proc' = [NoProcess EXCEPT !.pc = "process_all",
                                    !.update = update,
                                    !.cache = disk.processed_documents,
                                    !.all_files = all_files,
                                    !.i = 1]
    /\ UNCHANGED <<config, self, pc, call, sz, strat, disk, comb>>

\* process_single_document(filepath), called for the next file
ProcessSingleDocument ==
    /\ proc.pc = "process_all"
    /\ proc.i <= Len(proc.all_files)
    /\ LET filepath  == proc.all_files[proc.i]
           text      == disk.raw[filepath].content
           file_hash == md5(text)
           cached    == proc.cache[filepath]
           chunks    == recursive_split_text(text)
           documents == [k \in 1..Len(chunks) |->
                            [page_content |-> chunks[k],
                             file_path |-> filepath,
                             chunk_index |-> k - 1,
                             total_chunks |-> Len(chunks)]]
       IN  IF \/ (cached # None /\ cached.hash = file_hash)
              \/ text = <<>>
           THEN /\ proc' = [proc EXCEPT !.i = @ + 1]
                /\ UNCHANGED disk
           ELSE /\ proc' = [proc EXCEPT
                               !.i = @ + 1,
                               !.cache[filepath] = [hash |-> file_hash,
                                                    chunks |-> Len(chunks)],
                               !.all_documents = @ \o documents]
                /\ disk' = [disk EXCEPT !.processed_documents = proc'.cache]
    /\ UNCHANGED <<config, self, pc, call, sz, strat, comb>>

\* the end of main(): `if docs: create_vector_store(docs, update_existing=
\* args.update)`, and the program exits
MainCreateVectorStore ==
    /\ proc.pc = "process_all"
    /\ proc.i > Len(proc.all_files)
    /\ LET documents == proc.all_documents
       IN  disk' = IF documents = <<>> THEN disk
                   ELSE [disk EXCEPT !.faiss_index =
                            IF proc.update /\ disk.faiss_index # None
                            THEN disk.faiss_index \o documents
                            ELSE documents]
    /\ proc' = NoProcess
    /\ UNCHANGED <<config, self, pc, call, sz, strat, comb>>

InitIngest ==
    /\ config = [chunk_size |-> DefaultChunkSize,
                 chunk_overlap |-> DefaultChunkOverlap]
    /\ self = FinancialTextSplitter(config.chunk_size, config.chunk_overlap)
    /\ pc = [c \in Callers |-> "idle"]
    /\ call = [c \in Callers |-> NoCall]
    /\ sz = [c \in Callers |-> NoSize]
    /\ strat = [c \in Callers |-> NoStrategy]
    /\ disk = NoDisk
    /\ proc = NoProcess
    /\ comb = NoCombine

NextIngest ==
    \/ AddFile
    \/ ModifyFile
    \/ TouchFile
    \/ MainCall
    \/ ProcessSingleDocument
    \/ MainCreateVectorStore

SpecIngest == InitIngest /\ [][NextIngest]_vars

(***************************************************************************)
(* A claim about the saved vector index, checked under SpecIngest          *)
(***************************************************************************)
\* the chunks of the text with the given hash that stand in the index under
\* the name of file f
HoldsVersion(index, f, hash) ==
    \A text \in Contents :
        md5(text) = hash =>
            \A k \in DOMAIN recursive_split_text(text) :
                \E n \in DOMAIN index :
                    /\ index[n].file_path = f
                    /\ index[n].page_content = recursive_split_text(text)[k]

\* C28: after any sequence of ingestion runs, with or without --update and
\* with files added or modified between the runs, every document the
\* processing cache records as processed has the chunks of its recorded
\* version in the saved index, and the index holds no chunk of another
\* version of a document: a run that skips cached documents saves no index
\* that lacks them
C28_IndexMatchesCache ==
    proc.pc = "exited" =>
        \A f \in Files :
            LET record == disk.processed_documents[f]
                index  == IF disk.faiss_index = None THEN <<>>
                          ELSE disk.faiss_index
            IN  record # None =>
                    /\ HoldsVersion(index, f, record.hash)
                    /\ \A n \in DOMAIN index :
                          index[n].file_path = f =>
                              \E text \in Contents :
                                  /\ md5(text) = record.hash
                                  /\ \E k \in DOMAIN recursive_split_text(text) :
                                        index[n].page_content
                                            = recursive_split_text(text)[k]

(***************************************************************************)
(* src/data_processor.py: a DocumentProcessor and its callers              *)
(***************************************************************************)
\* the most calls of process_all_documents made on one processor object
MaxCalls == 2

\* DocumentProcessor(): the processing cache is loaded, the statistics are
\* zero
ProcessorInit ==
    /\ proc.pc = "exited"
    /\ proc' = [NoProcess EXCEPT !.pc = "constructed",
                                 !.cache = disk.processing_cache]
    /\ UNCHANGED <<config, self, pc, call, sz, strat, disk, comb>>

\* processor.process_all_documents(force_reprocess) up to its loop: the
\* documents are listed and counted
ProcessAllCall ==
    /\ proc.pc \in {"constructed", "returned"}
    /\ proc.calls < MaxCalls
    /\ \E force_reprocess \in BOOLEAN, all_files \in Listings(disk.raw) :
          proc' = [proc EXCEPT !.pc = "process_all",
                               !.force_reprocess = force_reprocess,
                               !.all_files = all_files,
                               !.i = 1,
                               !.all_documents = <<>>,
                               !.stats.total_files = Len(all_files),
                               !.calls = @ + 1]
    /\ UNCHANGED <<config, self, pc, call, sz, strat, disk, comb>>

\* self.text_splitter of a DocumentProcessor
text_splitter == FinancialTextSplitter(1000, 200)

\* self.text_splitter.split_text(text, metadata) for each text a raw document
\* can hold; the metadata of _extract_metadata names no source
chunks_with_metadata == [text \in Contents |-> split_text(text_splitter, text, None)]

\* the LangChain documents _process_single_document makes of the chunks
Documents(file_path, chunks) ==
    [k \in 1..Len(chunks) |->
        [page_content |-> chunks[k][1],
         file_path |-> file_path,
         chunk_index |-> chunks[k][2].chunk_index,
         total_chunks |-> chunks[k][2].total_chunks]]

\* _process_single_document(file_path): the documents of the file's chunks,
\* none for a file without text
process_single_document(file_path, text) ==
    IF strip(text) = <<>> THEN <<>>
    ELSE Documents(file_path, chunks_with_metadata[text])

\* the processor after _process_single_document has returned the documents
\* of a file: counted as processed and recorded in the cache, or counted as
\* failed
Counted(file_key, file_info, documents) ==
    IF documents # <<>>
    THEN [proc EXCEPT !.i = @ + 1,
                      !.all_documents = @ \o documents,
                      !.stats.processed_files = @ + 1,
                      !.cache[file_key] = [size |-> file_info.size,
                                           modified |-> file_info.modified,
                                           chunks |-> Len(documents)]]
    ELSE [proc EXCEPT !.i = @ + 1,
                      !.stats.failed_files = @ + 1]

\* one round of the loop of process_all_documents
ProcessFile ==
    /\ proc.pc = "process_all"
    /\ proc.i <= Len(proc.all_files)
    /\ LET file_key    == proc.all_files[proc.i]
           file_info   == [size |-> Len(disk.raw[file_key].content),
                           modified |-> disk.raw[file_key].modified]
           cached_info == proc.cache[file_key]
       IN  IF /\ ~proc.force_reprocess
              /\ cached_info # None
              /\ cached_info.size = file_info.size
              /\ cached_info.modified = file_info.modified
           THEN proc' = [proc EXCEPT !.i = @ + 1]
           ELSE proc' = Counted(file_key, file_info,
                                process_single_document(
                                    file_key, disk.raw[file_key].content))
    /\ UNCHANGED <<config, self, pc, call, sz, strat, disk, comb>>

\* the end of process_all_documents: the cache is saved, the chunks are
\* counted, and the documents and the statistics are returned
ProcessAllReturn ==
    /\ proc.pc = "process_all"
    /\ proc.i > Len(proc.all_files)
    /\ proc' = [proc EXCEPT !.pc = "returned",
                            !.stats.total_chunks = Len(proc.all_documents)]
    /\ disk' = [disk EXCEPT !.processing_cache = proc.cache]
    /\ UNCHANGED <<config, self, pc, call, sz, strat, comb>>

\* the rest of the module's process_all_documents(force_reprocess): the
\* returned documents are added to the saved index, or a new index is
\* created from them, and the processor is dropped
StoreDocuments ==
    /\ proc.pc = "returned"
    /\ LET documents == proc.all_documents
       IN  disk' = IF documents = <<>> THEN disk
                   ELSE [disk EXCEPT !.faiss_index =
                            IF disk.faiss_index # None /\ ~proc.force_reprocess
                            THEN disk.faiss_index \o documents
                            ELSE documents]
    /\ proc' = NoProcess
    /\ UNCHANGED <<config, self, pc, call, sz, strat, comb>>

InitProcessor ==
    /\ config = [chunk_size |-> DefaultChunkSize,
                 chunk_overlap |-> DefaultChunkOverlap]
    /\ self = FinancialTextSplitter(config.chunk_size, config.chunk_overlap)
    /\ pc = [c \in Callers |-> "idle"]
    /\ call = [c \in Callers |-> NoCall]
    /\ sz = [c \in Callers |-> NoSize]
    /\ strat = [c \in Callers |-> NoStrategy]
    /\ disk = NoDisk
    /\ proc = NoProcess
    /\ comb = NoCombine

NextProcessor ==
    \/ AddFile
    \/ ModifyFile
    \/ TouchFile
    \/ ProcessorInit
    \/ ProcessAllCall
    \/ ProcessFile
    \/ ProcessAllReturn
    \/ StoreDocuments

SpecProcessor == InitProcessor /\ [][NextProcessor]_vars

(***************************************************************************)
(* Claims about the processing cache and the statistics, checked under     *)
(* SpecProcessor                                                           *)
(***************************************************************************)
\* the cache record was written for this content: by its hash where the
\* record holds one, else by its size (the contents of the model differ in
\* size)
RecordedContent(record, content) ==
    IF "hash" \in DOMAIN record THEN record.hash = md5(content)
    ELSE record.size = Len(content)

\* C27: across any sequence of ingestion runs, a document with text is
\* split in a run exactly when it has no cache record or its content differs
\* from the content recorded for it; a document whose content is unchanged
\* is skipped, and after a document is processed its record holds the hash
\* of the processed content and the number of chunks produced
C27_SplitWhenContentChanged ==
    [][(/\ proc.pc = "process_all"
        /\ proc'.pc = "process_all"
        /\ proc'.i = proc.i + 1
        /\ strip(disk.raw[proc.all_files[proc.i]].content) # <<>>)
       => LET f       == proc.all_files[proc.i]
              content == disk.raw[f].content
              record  == proc.cache[f]
              added   == Len(proc'.all_documents) - Len(proc.all_documents)
          IN  /\ (added > 0) <=> (\/ record = None
                                  \/ ~RecordedContent(record, content))
              /\ added > 0 =>
                    /\ "hash" \in DOMAIN proc'.cache[f]
                    /\ proc'.cache[f].hash = md5(content)
                    /\ proc'.cache[f].chunks = added]_vars

\* C29: after every call of process_all_documents, a second or later call
\* on the same processor included, processed_files + failed_files <=
\* total_files and total_chunks is the number of documents returned; a file
\* that yields no chunks has no cache record that would make the next run
\* skip it
C29_StatisticsConsistent ==
    proc.pc = "returned" =>
        /\ proc.stats.processed_files + proc.stats.failed_files
               <= proc.stats.total_files
        /\ proc.stats.total_chunks = Len(proc.all_documents)
        /\ \A k \in DOMAIN proc.all_files :
              LET f == proc.all_files[k]
              IN  strip(disk.raw[f].content) = <<>> =>
                      \/ proc.cache[f] = None
                      \/ proc.cache[f].size # Len(disk.raw[f].content)
                      \/ proc.cache[f].modified # disk.raw[f].modified

(***************************************************************************)
(* combine_chunks run step by step                                         *)
(***************************************************************************)
\* the most chunks handed to combine_chunks, and the largest max_size
MaxChunks == 3

MaxCombined == 10

\* the chunks handed to combine_chunks: "aa", "bbbb" and "c"
CombineTexts == {<<"a","a">>, <<"b","b","b","b">>, <<"c">>}

CombineLists == UNION {[1..n -> CombineTexts] : n \in 0..MaxChunks}

\* combine_chunks(chunks, max_size) up to its loop
CombineCall ==
    /\ comb.pc \in {"idle", "returned"}
    /\ \E chunks \in CombineLists, max_size \in 0..MaxCombined :
          comb' = [NoCombine EXCEPT !.pc = "loop", !.chunks = chunks,
                                    !.max_size = max_size, !.i = 1]
    /\ UNCHANGED <<config, self, pc, call, sz, strat, disk, proc>>

\* one round of `for chunk in chunks`
CombineChunk ==
    /\ comb.pc = "loop"
    /\ comb.i <= Len(comb.chunks)
    /\ LET chunk   == comb.chunks[comb.i]
           current == comb.current
       IN  IF Len(current \o chunk) <= comb.max_size
           THEN comb' = [comb EXCEPT
                            !.i = @ + 1,
                            !.current = IF current # <<>>
                                        THEN current \o <<"\n","\n">> \o chunk
                                        ELSE chunk]
           ELSE comb' = [comb EXCEPT
                            !.i = @ + 1,
                            !.combined = IF current # <<>>
                                         THEN Append(@, current)
                                         ELSE @,
                            !.current = chunk]
    /\ UNCHANGED <<config, self, pc, call, sz, strat, disk, proc>>

\* after the loop: the last `current` is appended, and `combined` returned
CombineReturn ==
    /\ comb.pc = "loop"
    /\ comb.i > Len(comb.chunks)
    /\ comb' = [comb EXCEPT
                   !.pc = "returned",
                   !.combined = IF comb.current # <<>>
                                THEN Append(@, comb.current)
                                ELSE @,
                   !.result = IF comb.current # <<>>
                              THEN Append(comb.combined, comb.current)
                              ELSE comb.combined]
    /\ UNCHANGED <<config, self, pc, call, sz, strat, disk, proc>>

InitCombine ==
    /\ config = [chunk_size |-> DefaultChunkSize,
                 chunk_overlap |-> DefaultChunkOverlap]
    /\ self = FinancialTextSplitter(config.chunk_size, config.chunk_overlap)
    /\ pc = [c \in Callers |-> "idle"]
    /\ call = [c \in Callers |-> NoCall]
    /\ sz = [c \in Callers |-> NoSize]
    /\ strat = [c \in Callers |-> NoStrategy]
    /\ disk = NoDisk
    /\ proc = NoProcess
    /\ comb = NoCombine

NextCombine ==
    \/ CombineCall
    \/ CombineChunk
    \/ CombineReturn

SpecCombine == InitCombine /\ [][NextCombine]_vars

(***************************************************************************)
(* A claim about combine_chunks, checked under SpecCombine                 *)
(***************************************************************************)
\* the chunks from number k on, joined with blank lines
RECURSIVE JoinChunks(_, _)
JoinChunks(chunks, k) ==
    IF k > Len(chunks) THEN <<>>
    ELSE IF k = Len(chunks) THEN chunks[k]
    ELSE chunks[k] \o <<"\n","\n">> \o JoinChunks(chunks, k + 1)

\* C30: the chunks combine_chunks returns hold every input chunk exactly
\* once and in input order (joined with blank lines they read as the input
\* chunks joined with blank lines), and every returned chunk made of two or
\* more input chunks is at most max_size long, the two-character separators
\* between the joined chunks counted
C30_CombinedWithinMaxSize ==
    comb.pc = "returned" =>
        /\ JoinChunks(comb.result, 1) = JoinChunks(comb.chunks, 1)
        /\ \A k \in DOMAIN comb.result :
              Contains(comb.result[k], <<"\n","\n">>)
                  => Len(comb.result[k]) <= comb.max_size

====
